---- MODULE Spec2Model ----
(***************************************************************************)
(* A model of the code generator of sip (sipbuild/generator/outputs/code). *)
(*                                                                         *)
(* Three specifications share the variables of the module:                 *)
(*   Spec        output_code(): Backend.factory() and _module_code() over  *)
(*               a small Specification tree, run a second time over the    *)
(*               same tree;                                                *)
(*   SpecArgs    Backend.g_arg_parser() applied to one py_signature and    *)
(*               one call shape (scope, ctor, overload);                   *)
(*   SpecMember  _member_function() and Backend.g_type_init_body()         *)
(*               emitting the parser blocks of the overloads of a member,  *)
(*               followed by a call of the generated function.             *)
(* A Python exception raised by the generator (SyntaxError on import,      *)
(* NameError, UnboundLocalError) ends the run in pc = "error".             *)
(***************************************************************************)
EXTENDS Integers, Sequences, FiniteSets, TLC

(***************************************************************************)
(* Bounds of the model.                                                    *)
(***************************************************************************)
\* The longest py_signature built from ArgSet.
MaxArgs == 2

\* The longest list of module variables of a tree.
MaxVars == 2

\* The longest list of overloads (or constructors) of a class.
MaxOverloads == 3

(***************************************************************************)
(* Tuples as Python compares them (lexicographically).                     *)
(***************************************************************************)
AbiGE(a, b) == a[1] > b[1] \/ (a[1] = b[1] /\ a[2] >= b[2])

AbiLT(a, b) == ~AbiGE(a, b)

\* The target ABI versions the trees are generated for.
AbiVersions == {<<12, 16>>, <<13, 0>>, <<13, 9>>, <<14, 0>>, <<14, 1>>}

(***************************************************************************)
(* Optional values: None is <<>>, a value v is <<v>>.                      *)
(***************************************************************************)
None == <<>>

Some(v) == <<v>>

(***************************************************************************)
(* Backend.factory(): the backend object, or the exception raised.         *)
(***************************************************************************)
\* `from .legacy_backend import LegacyBackend` compiles legacy_backend.py,
\* whose line 655 never closes the call it opens (lines 880 and 2071 do not
\* parse either): the import raises SyntaxError.
import_LegacyBackend == "SyntaxError"

factory(s) ==
    IF AbiGE(s.target_abi, <<14, 0>>) THEN "Backend" ELSE import_LegacyBackend

(***************************************************************************)
(* python_slots: the classes of Python slots the generator asks about.     *)
(***************************************************************************)
is_number_slot(py_slot) ==
    py_slot \in {"ADD", "SUB", "MUL", "MOD", "FLOORDIV", "TRUEDIV", "AND",
                 "OR", "XOR", "LSHIFT", "RSHIFT", "MATMUL"}

is_int_arg_slot(py_slot) == py_slot \in {"REPEAT", "IREPEAT"}

is_zero_arg_slot(py_slot) ==
    py_slot \in {"STR", "INT", "FLOAT", "INVERT", "NEG", "LEN", "BOOL", "POS",
                 "ABS", "REPR", "HASH", "INDEX", "ITER", "NEXT"}

(***************************************************************************)
(* ABI dependent capabilities of Backend.                                  *)
(***************************************************************************)
abi_has_working_char_conversion == TRUE

abi_supports_array == TRUE

\* Backend.cached_name_ref() with as_nr=False: the literal text of the name.
cached_name_ref(name) == [ref |-> "literal", name |-> name]

(***************************************************************************)
(* _get_subformat_char(): chr(ord('0') + flags).                           *)
(***************************************************************************)
\* The characters from '0' (0x30) onwards.
CharsFromZero ==
    <<"0", "1", "2", "3", "4", "5", "6", "7", "8", "9", ":", ";", "<", "=",
      ">", "?", "@", "A", "B", "C", "D", "E", "F", "G", "H", "I", "J", "K",
      "L", "M", "N", "O">>

subformat_flags_SwapTransfer(arg) ==
    (IF arg.transfer = "TRANSFER_BACK" THEN 2 ELSE 0)
    + (IF arg.transfer = "TRANSFER" THEN 4 ELSE 0)
    + (IF arg.type \in {"CLASS", "MAPPED"}
            /\ (Len(arg.derefs) = 0 \/ arg.disallow_none)
       THEN 1 ELSE 0)
    + (IF arg.type \in {"CLASS", "MAPPED"} /\ arg.transfer = "TRANSFER_THIS"
       THEN 16 ELSE 0)
    + (IF arg.type \in {"CLASS", "MAPPED"}
            /\ (arg.is_constrained
                \/ (arg.type = "CLASS"
                    /\ arg.definition.convert_to_type_code = None))
       THEN 8 ELSE 0)

subformat_flags_ThisForAll(arg) ==
    (IF arg.transfer = "TRANSFER" THEN 2 ELSE 0)
    + (IF arg.transfer = "TRANSFER_BACK" THEN 4 ELSE 0)
    + (IF arg.type \in {"CLASS", "MAPPED"}
            /\ (Len(arg.derefs) = 0 \/ arg.disallow_none)
       THEN 1 ELSE 0)
    + (IF arg.transfer = "TRANSFER_THIS" THEN 16 ELSE 0)
    + (IF arg.type \in {"CLASS", "MAPPED"}
            /\ (arg.is_constrained
                \/ (arg.type = "CLASS"
                    /\ arg.definition.convert_to_type_code = None))
       THEN 8 ELSE 0)

subformat_flags(arg) ==
    (IF arg.transfer = "TRANSFER" THEN 2 ELSE 0)
    + (IF arg.transfer = "TRANSFER_BACK" THEN 4 ELSE 0)
    + (IF arg.type \in {"CLASS", "MAPPED"}
            /\ (Len(arg.derefs) = 0 \/ arg.disallow_none)
       THEN 1 ELSE 0)
    + (IF arg.type \in {"CLASS", "MAPPED"} /\ arg.transfer = "TRANSFER_THIS"
       THEN 16 ELSE 0)
    + (IF arg.type \in {"CLASS", "MAPPED"}
            /\ (arg.is_constrained
                \/ (arg.type = "CLASS"
                    /\ arg.definition.convert_to_type_code = None))
       THEN 8 ELSE 0)

_get_subformat_char(arg) == CharsFromZero[subformat_flags(arg) + 1]

(***************************************************************************)
(* Backend.g_arg_parser(sf, scope, py_signature, ctor, overload).          *)
(*                                                                         *)
(* scope is "None", "class", "namespace" (a WrappedClass whose interface   *)
(* file is a namespace) or "mapped_type"; ctor and overload are optional   *)
(* records; args is py_signature.args.  The result is what is written: the *)
(* keyword name table (None when there is none) and the call of the parser *)
(* function, made of the function, the arguments before the format string  *)
(* (head), the format string and the arguments after it (slots).           *)
(***************************************************************************)
InArgs(args) == SelectSeq(args, LAMBDA a : a.is_in)

\* An argument of the call that belongs to argument arg_nr (-1 for self).
Slot(arg_nr, text) == [n |-> arg_nr, s |-> text]

\* Lines 52-53: a scope that is just a namespace is ignored.
effective_scope_KeepNamespace(scope) == scope

effective_scope(scope) == IF scope = "namespace" THEN "None" ELSE scope

\* Lines 55-59.
handle_self(target_abi, scope, overload) ==
    IF AbiGE(target_abi, <<13, 0>>)
    THEN effective_scope(scope) # "None" /\ overload # None
            /\ overload[1].common.py_slot = "None"
    ELSE effective_scope(scope) # "None" /\ overload # None
            /\ overload[1].common.py_slot = "None" /\ ~overload[1].is_static

\* Lines 76-77.
ctor_needs_self(args, ctor) ==
    ctor # None /\ \E i \in 1..Len(args) : args[i].transfer = "TRANSFER"

\* Lines 67-69: the number of the last /ArraySize/ argument, -1 without one.
array_len_arg_nr(args) ==
    IF \E i \in 1..Len(args) : args[i].array = "ARRAY_SIZE"
    THEN (CHOOSE i \in 1..Len(args) :
              /\ args[i].array = "ARRAY_SIZE"
              /\ \A j \in (i + 1)..Len(args) : args[j].array # "ARRAY_SIZE") - 1
    ELSE -1

\* py_signature.args[array_len_arg_nr]: Python counts a negative index from
\* the end of the list.
array_len_arg(args) ==
    IF array_len_arg_nr(args) = -1 THEN Len(args) - 1
    ELSE array_len_arg_nr(args)

\* Backend._g_argument_variable(), called for every argument at line 71,
\* calls type_needs_user_state() at lines 2076 and 2083; backend.py neither
\* defines nor imports that name, so reaching either line raises NameError.
_g_argument_variable_raises(arg) ==
    /\ arg.is_in
    /\ \/ /\ arg.type = "CLASS"
          /\ ~(arg.array = "ARRAY" /\ abi_supports_array)
          /\ arg.definition.convert_to_type_code # None
          /\ ~arg.is_constrained
       \/ /\ arg.type = "MAPPED"
          /\ ~arg.definition.no_release
          /\ ~arg.is_constrained

\* The parsing primitive: lines 101-186.
uses_pair_parser(overload) ==
    overload # None /\ is_number_slot(overload[1].common.py_slot)

uses_setattr_parser(overload) ==
    ~uses_pair_parser(overload)
        /\ overload # None /\ overload[1].common.py_slot = "SETATTR"

uses_kwd_parser_NoCtor(ctor, overload) ==
    ~uses_pair_parser(overload) /\ ~uses_setattr_parser(overload)
        /\ overload # None /\ overload[1].common.allow_keyword_args

uses_kwd_parser(ctor, overload) ==
    ~uses_pair_parser(overload) /\ ~uses_setattr_parser(overload)
        /\ ((overload # None /\ overload[1].common.allow_keyword_args)
            \/ ctor # None)

\* Lines 127-132.
effective_kw_args(ctor, overload) ==
    IF overload # None THEN overload[1].kw_args
    ELSE IF ctor # None THEN ctor[1].kw_args
    ELSE "NONE"

\* Lines 151-156: one entry of sipKwdList.
kwd_entry_AllOnly(arg, kw_args) ==
    IF arg.name # None /\ kw_args = "ALL"
    THEN cached_name_ref(arg.name[1])
    ELSE [ref |-> "SIP_NULLPTR", name |-> ""]

kwd_entry(arg, kw_args) ==
    IF arg.name # None /\ (kw_args = "ALL" \/ arg.default_value # None)
    THEN cached_name_ref(arg.name[1])
    ELSE [ref |-> "SIP_NULLPTR", name |-> ""]

\* Lines 140-159: the entries of sipKwdList, None when no table is written.
kwd_list_AllArgs(args, kw_args) ==
    IF kw_args # "NONE" /\ InArgs(args) # <<>>
    THEN Some([i \in 1..Len(args) |-> kwd_entry(args[i], kw_args)])
    ELSE None

kwd_list_Always(args, kw_args) ==
    Some([i \in 1..Len(InArgs(args)) |->
              kwd_entry(InArgs(args)[i], kw_args)])

kwd_list(args, kw_args) ==
    IF kw_args # "NONE" /\ InArgs(args) # <<>>
    THEN Some([i \in 1..Len(InArgs(args)) |->
                   kwd_entry(InArgs(args)[i], kw_args)])
    ELSE None

\* Lines 172-177, reached for the positional parser only.  Under ABI v13 and
\* earlier line 177 evaluates is_multi_arg_slot(), which backend.py neither
\* defines nor imports, once overload and its py_slot are not None.
single_arg_raises(target_abi, ctor, overload) ==
    /\ ~uses_pair_parser(overload) /\ ~uses_setattr_parser(overload)
    /\ ~uses_kwd_parser(ctor, overload)
    /\ AbiLT(target_abi, <<14, 0>>)
    /\ overload # None /\ overload[1].common.py_slot # "None"

\* Lines 96 and 172-177.  In the case left out of line 177 here its
\* evaluation raises (single_arg_raises) and no value is assigned.
single_arg(target_abi, ctor, overload) ==
    IF uses_pair_parser(overload) \/ uses_setattr_parser(overload)
           \/ uses_kwd_parser(ctor, overload)
    THEN FALSE
    ELSE IF AbiGE(target_abi, <<14, 0>>) THEN FALSE
    ELSE ~(overload = None \/ overload[1].common.py_slot = "None")

\* Lines 95-186: the parser function and the arguments before the format.
parser_function(ctor, overload) ==
    IF uses_pair_parser(overload) THEN "sipParsePair"
    ELSE IF uses_setattr_parser(overload)
         THEN (IF overload[1].is_delattr
               THEN "sipValue == SIP_NULLPTR && sipParsePair"
               ELSE "sipValue != SIP_NULLPTR && sipParsePair")
    ELSE IF uses_kwd_parser(ctor, overload) THEN "sipParseKwdArgs"
    ELSE "sipParseArgs"

head(target_abi, args, ctor, overload) ==
    (IF AbiGE(target_abi, <<14, 0>>) THEN <<"sipModule">> ELSE <<>>)
    \o (IF uses_pair_parser(overload)
        THEN <<"&sipParseErr", "sipArg0", "sipArg1">>
        ELSE IF uses_setattr_parser(overload)
             THEN <<"&sipParseErr", "sipName",
                    IF overload[1].is_delattr THEN "SIP_NULLPTR"
                    ELSE "sipValue">>
        ELSE IF uses_kwd_parser(ctor, overload)
             THEN <<IF ctor # None THEN "sipParseErr" ELSE "&sipParseErr",
                    "sipArgs">>
                  \o (IF AbiGE(target_abi, <<14, 0>>) THEN <<"sipNrArgs">>
                      ELSE <<>>)
                  \o <<"sipKwds",
                       IF kwd_list(args, effective_kw_args(ctor, overload))
                              # None
                       THEN "sipKwdList" ELSE "SIP_NULLPTR",
                       IF ctor # None THEN "sipUnused" ELSE "SIP_NULLPTR">>
        ELSE <<"&sipParseErr",
               IF single_arg(target_abi, ctor, overload) THEN "sipArg"
               ELSE "sipArgs">>
             \o (IF AbiGE(target_abi, <<14, 0>>) THEN <<"sipNrArgs">>
                 ELSE <<>>))

EncodedStrings == {"ASCII_STRING", "LATIN1_STRING", "UTF8_STRING"}

\* Lines 222-245 call _is_string(), which backend.py neither defines nor
\* imports (code.py has a private function of that name): formatting such
\* an argument raises NameError.
calls_is_string(arg) ==
    \/ arg.type \in EncodedStrings
    \/ arg.type \in {"SSTRING", "USTRING", "STRING", "WSTRING"}
          /\ arg.array # "ARRAY"

\* Lines 213-220: the '@' that asks for the wrapper.
wrapper_format(arg) ==
    IF arg.get_wrapper THEN <<"@">>
    ELSE IF arg.key # None
              /\ ~(arg.type \in EncodedStrings /\ Len(arg.derefs) = 1)
         THEN <<"@">>
    ELSE <<>>

\* Lines 222-351: the format characters of the type.  Nothing is appended
\* where _is_string() is called, because the call raises.
type_format(arg) ==
    LET t == arg.type
        sized(c) == IF arg.array # "ARRAY_SIZE" THEN <<c>> ELSE <<>>
    IN  CASE t \in EncodedStrings -> <<>>
          [] t \in {"SSTRING", "USTRING", "STRING"} ->
                IF arg.array = "ARRAY" THEN <<"k">> ELSE <<>>
          [] t = "WSTRING" ->
                IF arg.array = "ARRAY" THEN <<"K">> ELSE <<>>
          [] t = "ENUM" ->
                IF arg.definition.fq_cpp_name = None THEN <<"e">>
                ELSE IF arg.is_constrained THEN <<"X", "E">> ELSE <<"E">>
          [] t = "BOOL" -> <<"b">>
          [] t = "CBOOL" -> <<"X", "b">>
          [] t = "INT" -> sized("i")
          [] t = "UINT" -> sized("u")
          [] t = "SIZE" -> sized("=")
          [] t = "CINT" -> <<"X", "i">>
          [] t = "BYTE" ->
                sized(IF abi_has_working_char_conversion THEN "I" ELSE "L")
          [] t = "SBYTE" -> sized("L")
          [] t = "UBYTE" -> sized("M")
          [] t = "SHORT" -> sized("h")
          [] t = "USHORT" -> sized("t")
          [] t = "LONG" -> sized("l")
          [] t = "ULONG" -> sized("m")
          [] t = "LONGLONG" -> sized("n")
          [] t = "ULONGLONG" -> sized("o")
          [] t \in {"STRUCT", "UNION", "VOID"} -> <<"v">>
          [] t = "CAPSULE" -> <<"z">>
          [] t = "FLOAT" -> <<"f">>
          [] t = "CFLOAT" -> <<"X", "f">>
          [] t = "DOUBLE" -> <<"d">>
          [] t = "CDOUBLE" -> <<"X", "d">>
          [] t \in {"CLASS", "MAPPED"} ->
                IF arg.array = "ARRAY"
                THEN IF t = "CLASS" /\ abi_supports_array
                     THEN <<">">> ELSE <<"r">>
                ELSE <<"J", _get_subformat_char(arg)>>
          [] t = "PYOBJECT" -> <<"P", _get_subformat_char(arg)>>
          [] t \in {"PYTUPLE", "PYLIST", "PYDICT", "PYSLICE", "PYTYPE"} ->
                IF arg.allow_none THEN <<"N">> ELSE <<"T">>
          [] t = "PYCALLABLE" -> IF arg.allow_none THEN <<"H">> ELSE <<"F">>
          [] t = "PYBUFFER" -> IF arg.allow_none THEN <<"$">> ELSE <<"!">>
          [] t = "PYENUM" -> IF arg.allow_none THEN <<"^">> ELSE <<"&">>
          [] t = "ELLIPSIS" -> <<"W">>
          [] OTHER -> <<>>

\* Lines 209-211: '|' is written the first time an input argument with a
\* default value is reached.
is_first_optional(in_args, i) ==
    in_args[i].default_value # None
        /\ \A j \in 1..(i - 1) : in_args[j].default_value = None

\* Lines 205-351: the format characters of the i-th input argument.
arg_format_BarAfter(in_args, i) ==
    wrapper_format(in_args[i]) \o type_format(in_args[i])
        \o (IF is_first_optional(in_args, i) THEN <<"|">> ELSE <<>>)

arg_format(in_args, i) ==
    (IF is_first_optional(in_args, i) THEN <<"|">> ELSE <<>>)
        \o wrapper_format(in_args[i]) \o type_format(in_args[i])

RECURSIVE args_format(_, _)
args_format(in_args, i) ==
    IF i > Len(in_args) THEN <<>>
    ELSE arg_format(in_args, i) \o args_format(in_args, i + 1)

\* Lines 192-203: what precedes the arguments' characters.
self_format(target_abi, scope, args, ctor, overload) ==
    (IF single_arg(target_abi, ctor, overload) THEN <<"1">> ELSE <<>>)
    \o (IF ctor_needs_self(args, ctor) THEN <<"#">>
        ELSE IF handle_self(target_abi, scope, overload)
             THEN IF overload[1].is_static THEN <<"C">>
                  ELSE IF overload[1].access_is_really_protected THEN <<"p">>
                  ELSE <<"B">>
        ELSE <<>>)

\* The character that opens and closes the format string.
Quote == "\""

\* Lines 188-354.
format_s(target_abi, scope, args, ctor, overload) ==
    <<Quote>>
        \o self_format(target_abi, scope, args, ctor, overload)
        \o args_format(InArgs(args), 1)
        \o <<Quote>>

\* Lines 357-364: the arguments that go with the self character.
self_slots(target_abi, scope, args, ctor, overload) ==
    IF ctor_needs_self(args, ctor) THEN <<Slot(-1, "sipSelf")>>
    ELSE IF handle_self(target_abi, scope, overload)
         THEN <<Slot(-1, "&sipSelf")>>
              \o (IF ~overload[1].is_static
                  THEN <<Slot(-1, "type"), Slot(-1, "&sipCpp")>>
                  ELSE <<>>)
    ELSE <<>>

\* Lines 374-377: the wrapper or the kept reference.
wrapper_slots(arg, arg_nr) ==
    IF arg.get_wrapper THEN <<Slot(arg_nr, "&Wrapper")>>
    ELSE IF arg.key # None THEN <<Slot(arg_nr, "&Keep")>>
    ELSE <<>>

\* Lines 379-461: the arguments of the call for the type of argument arg_nr.
type_slots(args, arg_nr, ctor) ==
    LET arg == args[arg_nr + 1]
        t   == arg.type
        ref == Slot(arg_nr, "&a")
        len == Slot(array_len_arg(args), "&a")
    IN  CASE t = "MAPPED" ->
                <<Slot(arg_nr, "type"), ref>>
                \o (IF arg.array = "ARRAY" THEN <<len>>
                    ELSE IF arg.definition.convert_to_type_code # None
                              /\ ~arg.is_constrained
                         THEN <<Slot(arg_nr,
                                     IF arg.definition.no_release
                                     THEN "SIP_NULLPTR" ELSE "&State")>>
                              \o (IF arg.definition.needs_user_state
                                  THEN <<Slot(arg_nr, "&UserState")>>
                                  ELSE <<>>)
                    ELSE <<>>)
          [] t = "CLASS" ->
                <<Slot(arg_nr, "type"), ref>>
                \o (IF arg.array = "ARRAY"
                    THEN <<len>>
                         \o (IF abi_supports_array
                             THEN <<Slot(arg_nr, "&IsTemp")>> ELSE <<>>)
                    ELSE (IF arg.transfer = "TRANSFER_THIS"
                          THEN <<Slot(arg_nr, IF ctor # None THEN "sipOwner"
                                              ELSE "&sipOwner")>>
                          ELSE <<>>)
                         \o (IF arg.definition.convert_to_type_code # None
                                   /\ ~arg.is_constrained
                             THEN <<Slot(arg_nr, "&State")>> ELSE <<>>))
          [] t \in EncodedStrings ->
                (IF arg.key = None /\ Len(arg.derefs) = 1
                 THEN <<Slot(arg_nr, "&Keep")>> ELSE <<>>)
                \o <<ref>>
          [] t = "PYTUPLE" -> <<Slot(arg_nr, "&PyTuple_Type"), ref>>
          [] t = "PYLIST" -> <<Slot(arg_nr, "&PyList_Type"), ref>>
          [] t = "PYDICT" -> <<Slot(arg_nr, "&PyDict_Type"), ref>>
          [] t = "PYSLICE" -> <<Slot(arg_nr, "&PySlice_Type"), ref>>
          [] t = "PYTYPE" -> <<Slot(arg_nr, "&PyType_Type"), ref>>
          [] t = "ENUM" ->
                (IF arg.definition.fq_cpp_name # None
                 THEN <<Slot(arg_nr, "type")>> ELSE <<>>)
                \o <<ref>>
          [] t = "CAPSULE" -> <<Slot(arg_nr, "as_cpp"), ref>>
          [] OTHER ->
                (IF arg.array # "ARRAY_SIZE" THEN <<ref>> ELSE <<>>)
                \o (IF arg.array = "ARRAY" THEN <<len>> ELSE <<>>)

RECURSIVE args_slots(_, _, _)
args_slots(args, arg_nr, ctor) ==
    IF arg_nr >= Len(args) THEN <<>>
    ELSE (IF args[arg_nr + 1].is_in
          THEN wrapper_slots(args[arg_nr + 1], arg_nr)
                   \o type_slots(args, arg_nr, ctor)
          ELSE <<>>)
         \o args_slots(args, arg_nr + 1, ctor)

\* Lines 356-461.
slots(target_abi, scope, args, ctor, overload) ==
    self_slots(target_abi, scope, args, ctor, overload)
        \o args_slots(args, 0, ctor)

\* What g_arg_parser() has written when an exception ends it: nothing of the
\* call, and the keyword name table when the exception comes after line 159.
Raised(table) ==
    [raised |-> TRUE, kwd_list |-> table, parser_function |-> "",
     head |-> <<>>, format_s |-> <<>>, slots |-> <<>>]

g_arg_parser(target_abi, scope, args, ctor, overload) ==
    IF \E i \in 1..Len(args) : _g_argument_variable_raises(args[i])
    THEN Raised(None)
    ELSE IF single_arg_raises(target_abi, ctor, overload)
    THEN Raised(None)
    ELSE IF \E i \in 1..Len(args) : args[i].is_in /\ calls_is_string(args[i])
    THEN Raised(IF uses_kwd_parser(ctor, overload)
                THEN kwd_list(args, effective_kw_args(ctor, overload))
                ELSE None)
    ELSE [raised |-> FALSE,
          kwd_list |-> IF uses_kwd_parser(ctor, overload)
                       THEN kwd_list(args, effective_kw_args(ctor, overload))
                       ELSE None,
          parser_function |-> parser_function(ctor, overload),
          head |-> head(target_abi, args, ctor, overload),
          format_s |-> format_s(target_abi, scope, args, ctor, overload),
          slots |-> slots(target_abi, scope, args, ctor, overload)]

(***************************************************************************)
(* The parser functions of the sip module read the format string and take  *)
(* the arguments that follow it from the call, one code at a time.         *)
(***************************************************************************)
\* The flags a sub-format character stands for.
flags_of(c) == (CHOOSE i \in 1..Len(CharsFromZero) : CharsFromZero[i] = c) - 1

HasBit(flags, bit) == (flags \div bit) % 2 = 1

\* The kinds of argument the code at f[i] takes, and the number of characters
\* of the code.
code_takes(f, i) ==
    LET c == f[i]
    IN  CASE c \in {Quote, "1", "|"} -> [n |-> 1, takes |-> <<>>]
          [] c \in {"#", "C"} -> [n |-> 1, takes |-> <<"self">>]
          [] c \in {"B", "p"} -> [n |-> 1, takes |-> <<"self", "type", "ptr">>]
          [] c = "@" -> [n |-> 1, takes |-> <<"obj">>]
          [] c = "A" -> [n |-> 2, takes |-> <<"obj", "ptr">>]
          [] c = "a" -> [n |-> 2, takes |-> <<"ptr">>]
          [] c \in {"k", "K"} -> [n |-> 1, takes |-> <<"ptr", "ptr">>]
          [] c = "E" -> [n |-> 1, takes |-> <<"type", "ptr">>]
          [] c = "X" -> [n |-> 2,
                         takes |-> IF f[i + 1] = "E" THEN <<"type", "ptr">>
                                   ELSE <<"ptr">>]
          [] c = "z" -> [n |-> 1, takes |-> <<"name", "ptr">>]
          [] c = "J" ->
                [n |-> 2,
                 takes |-> <<"type", "ptr">>
                     \o (IF HasBit(flags_of(f[i + 1]), 16) THEN <<"owner">>
                         ELSE <<>>)
                     \o (IF HasBit(flags_of(f[i + 1]), 8) THEN <<>>
                         ELSE <<"state">>)]
          [] c = "r" -> [n |-> 1, takes |-> <<"type", "ptr", "ptr">>]
          [] c = ">" -> [n |-> 1, takes |-> <<"type", "ptr", "ptr", "istemp">>]
          [] c = "P" -> [n |-> 2, takes |-> <<"ptr">>]
          [] c \in {"N", "T"} -> [n |-> 1, takes |-> <<"type", "ptr">>]
          [] OTHER -> [n |-> 1, takes |-> <<"ptr">>]

RECURSIVE format_takes(_, _)
format_takes(f, i) ==
    IF i > Len(f) THEN <<>>
    ELSE code_takes(f, i).takes \o format_takes(f, i + code_takes(f, i).n)

\* The kind of an argument of the generated call.
slot_kind(s) ==
    CASE s \in {"sipSelf", "&sipSelf"} -> "self"
      [] s \in {"type", "&PyTuple_Type", "&PyList_Type", "&PyDict_Type",
                "&PySlice_Type", "&PyType_Type"} -> "type"
      [] s \in {"&Wrapper", "&Keep"} -> "obj"
      [] s \in {"sipOwner", "&sipOwner"} -> "owner"
      [] s \in {"SIP_NULLPTR", "&State"} -> "state"
      [] s = "&IsTemp" -> "istemp"
      [] s = "as_cpp" -> "name"
      [] s = "&UserState" -> "user_state"
      [] OTHER -> "ptr"

\* The kinds of the arguments of a call.  The user state follows the state
\* when the type itself asks for one, whatever the format says, so it is
\* left out of the comparison with the format.
slot_kinds(ss) ==
    LET kinds == [i \in 1..Len(ss) |-> slot_kind(ss[i].s)]
    IN  SelectSeq(kinds, LAMBDA k : k # "user_state")

\* The number of positional arguments a format string requires and allows:
\* the codes before and after '|' (there is one code per int argument).
required_args(f) ==
    LET bars == {i \in 1..Len(f) : f[i] = "|"}
        upto == IF bars = {} THEN Len(f) ELSE CHOOSE i \in bars : TRUE
    IN  Cardinality({i \in 1..upto : f[i] = "i"})

allowed_args(f) == Cardinality({i \in 1..Len(f) : f[i] = "i"})

(***************************************************************************)
(* The signatures and the callables that g_arg_parser() is given.          *)
(***************************************************************************)
NoDefinition ==
    [fq_cpp_name |-> None, convert_to_type_code |-> None,
     no_release |-> FALSE, needs_user_state |-> FALSE,
     is_protected |-> FALSE, enum_base_type |-> None,
     is_abstract |-> FALSE, cannot_copy |-> FALSE, cannot_assign |-> FALSE]

Definitions ==
    {NoDefinition,
     [NoDefinition EXCEPT !.fq_cpp_name = Some("N")],
     [NoDefinition EXCEPT !.fq_cpp_name = Some("N"),
                          !.convert_to_type_code = Some("code")],
     [NoDefinition EXCEPT !.fq_cpp_name = Some("N"),
                          !.convert_to_type_code = Some("code"),
                          !.no_release = TRUE]}

\* An int passed by value.
IntArg ==
    [type |-> "INT", derefs |-> <<>>, is_in |-> TRUE, is_out |-> FALSE,
     is_reference |-> FALSE, is_const |-> FALSE, no_copy |-> FALSE,
     default_value |-> None, get_wrapper |-> FALSE, key |-> None,
     array |-> "NONE", transfer |-> "NONE", disallow_none |-> FALSE,
     allow_none |-> FALSE, is_constrained |-> FALSE, name |-> None,
     definition |-> NoDefinition]

ArgumentTypes ==
    {"ASCII_STRING", "LATIN1_STRING", "UTF8_STRING", "SSTRING", "USTRING",
     "STRING", "WSTRING", "ENUM", "BOOL", "CBOOL", "INT", "UINT", "SIZE",
     "SSIZE", "HASH", "CINT", "BYTE", "SBYTE", "UBYTE", "SHORT", "USHORT",
     "LONG", "ULONG", "LONGLONG", "ULONGLONG", "STRUCT", "UNION", "VOID",
     "CAPSULE", "FLOAT", "CFLOAT", "DOUBLE", "CDOUBLE", "CLASS", "MAPPED",
     "PYOBJECT", "PYTUPLE", "PYLIST", "PYDICT", "PYSLICE", "PYTYPE",
     "PYCALLABLE", "PYBUFFER", "PYENUM", "ELLIPSIS"}

PointerTypes ==
    EncodedStrings \cup {"SSTRING", "USTRING", "STRING", "WSTRING", "CLASS",
                         "MAPPED", "STRUCT", "UNION", "VOID"}

\* The types /Array/ can tag.
ArrayTypes == {"CLASS", "MAPPED", "SSTRING", "USTRING", "STRING", "WSTRING"}

\* The arguments the signatures of up to MaxArgs arguments are made of.
ArgSet ==
    {IntArg,
     [IntArg EXCEPT !.name = Some("incr"), !.default_value = Some("1")],
     [IntArg EXCEPT !.name = Some("n")],
     [IntArg EXCEPT !.is_in = FALSE, !.is_out = TRUE, !.derefs = <<FALSE>>],
     [IntArg EXCEPT !.array = "ARRAY_SIZE"],
     [IntArg EXCEPT !.type = "DOUBLE", !.default_value = Some("0")],
     [IntArg EXCEPT !.type = "CLASS", !.derefs = <<FALSE>>,
                    !.transfer = "TRANSFER", !.name = Some("parent"),
                    !.default_value = Some("0")],
     [IntArg EXCEPT !.type = "CLASS", !.derefs = <<FALSE>>,
                    !.array = "ARRAY"],
     [IntArg EXCEPT !.type = "ASCII_STRING", !.derefs = <<TRUE>>],
     [IntArg EXCEPT !.type = "MAPPED",
                    !.definition = [NoDefinition EXCEPT
                                        !.convert_to_type_code = Some("code")]],
     [IntArg EXCEPT !.type = "PYOBJECT", !.get_wrapper = TRUE]}

RECURSIVE SeqsUpTo(_, _)
SeqsUpTo(S, n) ==
    IF n = 0 THEN {<<>>}
    ELSE SeqsUpTo(S, n - 1)
             \cup {Append(s, x) : s \in {t \in SeqsUpTo(S, n - 1) :
                                             Len(t) = n - 1}, x \in S}

\* An array goes with the argument that holds its length.
WithLength(arg) ==
    IF arg.array = "ARRAY" THEN <<arg, [IntArg EXCEPT !.array = "ARRAY_SIZE"]>>
    ELSE <<arg>>

\* The arguments of any type and any tagging.  A class or a mapped type is
\* passed by value or by pointer, and a pointer may have /DisallowNone/.
WideArgs ==
    {arg \in {[IntArg EXCEPT
                  !.type = t,
                  !.derefs = IF t \in PointerTypes /\ ~by_value
                             THEN <<FALSE>> ELSE <<>>,
                  !.disallow_none = dn,
                  !.get_wrapper = gw,
                  !.key = k,
                  !.transfer = tr,
                  !.array = ar,
                  !.is_constrained = c,
                  !.definition = d] :
                t \in ArgumentTypes, by_value \in BOOLEAN, dn \in BOOLEAN,
                gw \in BOOLEAN, k \in {None, Some(-1)},
                tr \in {"NONE", "TRANSFER", "TRANSFER_BACK", "TRANSFER_THIS"},
                ar \in {"NONE", "ARRAY"}, c \in BOOLEAN, d \in Definitions} :
        /\ arg.array = "ARRAY" => arg.type \in ArrayTypes /\ arg.derefs # <<>>
        /\ arg.type \notin {"CLASS", "MAPPED"} =>
               ~arg.disallow_none /\ (arg.type \in PointerTypes => arg.derefs # <<>>)
        /\ arg.disallow_none => arg.derefs # <<>>}

\* The signatures of one such argument.
WideSignatures == {WithLength(arg) : arg \in WideArgs}

Function ==
    [common |-> [py_slot |-> "None", allow_keyword_args |-> FALSE],
     is_static |-> FALSE, kw_args |-> "NONE",
     access_is_really_protected |-> FALSE, is_delattr |-> FALSE]

KwFunction(kw_args) ==
    [Function EXCEPT !.common.allow_keyword_args = TRUE, !.kw_args = kw_args]

SlotFunction(py_slot) == [Function EXCEPT !.common.py_slot = py_slot]

Shape(scope, ctor, overload) ==
    [scope |-> scope, ctor |-> ctor, overload |-> overload]

KwArgs == {"NONE", "ALL", "OPTIONAL"}

\* The callables: functions, methods, constructors and slots.
Shapes ==
    {Shape("None", None, Some(Function))}
    \cup {Shape("None", None, Some(KwFunction(kw))) : kw \in KwArgs}
    \cup {Shape("class", None, Some(Function)),
          Shape("class", None, Some(KwFunction("ALL"))),
          Shape("class", None, Some([Function EXCEPT !.is_static = TRUE])),
          Shape("class", None,
                Some([Function EXCEPT !.access_is_really_protected = TRUE])),
          Shape("namespace", None, Some(Function)),
          Shape("mapped_type", None,
                Some([Function EXCEPT !.is_static = TRUE])),
          Shape("class", None, Some(SlotFunction("ADD"))),
          Shape("class", None, Some(SlotFunction("GETITEM"))),
          Shape("class", None, Some(SlotFunction("CALL"))),
          Shape("class", None, Some(SlotFunction("SETATTR"))),
          Shape("class", None,
                Some([SlotFunction("SETATTR") EXCEPT !.is_delattr = TRUE]))}
    \cup {Shape("class", Some([kw_args |-> kw]), None) : kw \in KwArgs}

(***************************************************************************)
(* Backend._g_variables_table() for the module's own variables, as called  *)
(* by g_static_variables_table(sf).                                        *)
(***************************************************************************)
\* What is written to the output, piece by piece.
Token(tok, name, key, nr) == [tok |-> tok, name |-> name, key |-> key, nr |-> nr]

\* The order of the names of the variables.
Alphabet == <<"a", "b", "c", "d", "e", "f">>

ord(name) == CHOOSE i \in 1..Len(Alphabet) : Alphabet[i] = name

\* list.sort(key=...): the variables in the order of their Python names.
RECURSIVE sort(_)
sort(variables) ==
    IF variables = <<>> THEN <<>>
    ELSE LET first == CHOOSE i \in 1..Len(variables) :
                          \A j \in 1..Len(variables) :
                              /\ ord(variables[i].py_name)
                                     <= ord(variables[j].py_name)
                              /\ (j < i => ord(variables[j].py_name)
                                             # ord(variables[i].py_name))
         IN  <<variables[first]>>
                 \o sort(SubSeq(variables, 1, first - 1)
                             \o SubSeq(variables, first + 1, Len(variables)))

\* Lines 2837-3003: the type ID of a variable; "" where no branch assigns
\* one (classes and named enums) and "continue" for the types left out.
type_id_of(v) ==
    CASE v.type = "CLASS" -> ""
      [] v.type = "ENUM" -> IF v.named THEN "" ELSE "continue"
      [] v.type = "INT" -> "sipTypeID_int"
      [] v.type = "STRING" ->
            IF v.derefs = 0 THEN "sipTypeID_char" ELSE "sipTypeID_str"
      [] v.type = "WSTRING" ->
            IF v.derefs = 0 THEN "sipTypeID_wchar" ELSE "sipTypeID_wstr"
      [] v.type = "VOID" ->
            IF v.is_const THEN "sipTypeID_voidptr_const"
            ELSE "sipTypeID_voidptr"
      [] OTHER -> "continue"

not_settable(v) ==
    CASE v.type = "INT" -> v.is_const
      [] v.type = "STRING" -> IF v.derefs = 0 THEN v.is_const ELSE ~v.is_const
      [] v.type = "WSTRING" -> v.derefs = 0 /\ v.is_const
      [] OTHER -> FALSE

might_need_key(v) == v.type \in {"STRING", "WSTRING"} /\ v.derefs # 0

\* Lines 3029-3030: key = module.next_key; module.next_key -= 1.
allocate_Keep(next_key) == next_key

allocate(next_key) == next_key - 1

\* Lines 3024-3049 for the i-th variable of the sorted list.  type_id is
\* the local variable as the earlier variables left it ("" while unbound).
RECURSIVE _g_variables_table(_, _, _, _, _)
_g_variables_table(variables, i, type_id, next_key, written) ==
    IF i > Len(variables)
    THEN [raised |-> FALSE, out |-> written, next_key |-> next_key]
    ELSE LET v  == variables[i]
             id == IF type_id_of(v) = "" THEN type_id ELSE type_id_of(v)
         IN  IF type_id_of(v) = "continue"
             THEN _g_variables_table(variables, i + 1, type_id, next_key,
                                     written)
             ELSE IF not_settable(v) \/ v.no_setter
             THEN IF id = ""
                  THEN [raised |-> TRUE, out |-> written,
                        next_key |-> next_key]
                  ELSE _g_variables_table(variables, i + 1, id, next_key,
                           Append(written,
                                  Token(id, v.py_name, "SIP_WV_RO", 0)))
             ELSE IF might_need_key(v)
             THEN _g_variables_table(variables, i + 1, id,
                      allocate(next_key),
                      Append(written, Token(id, v.py_name, "key", next_key)))
             ELSE IF id = ""
                  THEN [raised |-> TRUE, out |-> written,
                        next_key |-> next_key]
                  ELSE _g_variables_table(variables, i + 1, id, next_key,
                           Append(written, Token(id, v.py_name, "0", 0)))

g_static_variables_table(s, next_key) ==
    _g_variables_table(sort(s.variables), 1, "", next_key, <<>>)

(***************************************************************************)
(* _module_code(): the parts of the module's source file whose form        *)
(* depends on the ABI, and the tables that hold allocated keys.            *)
(***************************************************************************)
py_enums_supported(s) == s.py_enums

\* code.py lines 295-306: the string pool of the cached names.
name_cache(s) ==
    IF AbiLT(s.target_abi, <<14, 0>>)
    THEN <<Token("sipStrings_", "", "", 0)>>
    ELSE <<>>

\* code.py lines 497-532: the entry of enumTypes[] for one needed enum
\* refers to its names by their offsets in the string pool.
enum_type(s, enum) ==
    <<Token(IF py_enums_supported(s) THEN "SIP_TYPE_ENUM"
            ELSE IF enum.is_scoped THEN "SIP_TYPE_SCOPED_ENUM"
            ELSE "SIP_TYPE_ENUM", "", "", 0),
      Token("sipNameNr_", enum.cpp_name, "", 0),
      Token("sipNameNr_", enum.py_name, "", 0)>>

RECURSIVE enum_types(_, _)
enum_types(s, i) ==
    IF i > Len(s.needed_enums) THEN <<>>
    ELSE enum_type(s, s.needed_enums[i]) \o enum_types(s, i + 1)

\* code.py lines 244-850.
_module_code(s, next_key) ==
    LET table == g_static_variables_table(s, next_key)
    IN  [raised |-> table.raised,
         next_key |-> table.next_key,
         out |-> name_cache(s) \o enum_types(s, 1) \o table.out]

\* code.py lines 183-241: the composite module has no tables of its own.
_composite_module_code(s) == <<Token("PyInit_", "", "", 0)>>

(***************************************************************************)
(* _member_function() and Backend.g_type_init_body(): one block per        *)
(* overload (or constructor), each with its own parser call.               *)
(***************************************************************************)
\* The signature of an overload that takes ints, the last ones optional.
IntSignature(nr_required, nr_optional) ==
    [i \in 1..(nr_required + nr_optional) |->
        IF i <= nr_required THEN IntArg
        ELSE [IntArg EXCEPT !.default_value = Some("0")]]

\* utils.py lines 147-168.
skip_overload(overload, inherited, want_local) ==
    \/ ~overload.common_is_member
    \/ overload.is_signal
    \/ overload.is_abstract /\ overload.access_specifier = "PRIVATE"
    \/ want_local /\ overload.access_specifier # "PROTECTED" /\ inherited

\* code.py lines 3673-3694.
need_method(klass, overloads) ==
    \E i \in 1..Len(overloads) :
        /\ ~(overloads[i].access_specifier = "PROTECTED" /\ ~klass.has_shadow)
        /\ ~skip_overload(overloads[i], klass.inherited, TRUE)

\* A block of the generated function: the overload it was written for, its
\* format string (raw when the method code does its own parsing) and
\* whether its call is the one that is never reached.
Block(decl, raw, format, never_reached) ==
    [decl |-> decl, raw |-> raw, format_s |-> format,
     never_reached |-> never_reached]

\* _function_body() and the start of _function_call() for overload i.
_function_body(target_abi, klass, overloads, i) ==
    LET overload == overloads[i]
        res == g_arg_parser(target_abi, "class", overload.args, None,
                            Some(Function))
    IN  [raised |-> res.raised,
         block |-> Block(i, FALSE, res.format_s,
                         overload.access_specifier = "PROTECTED"
                             /\ ~klass.has_shadow)]

\* code.py lines 3770-3783: the blocks in the order they are written.
RECURSIVE member_blocks_Reversed(_, _, _, _)
member_blocks_Reversed(target_abi, klass, overloads, i) ==
    IF i > Len(overloads) THEN [raised |-> FALSE, blocks |-> <<>>]
    ELSE IF skip_overload(overloads[i], klass.inherited, FALSE)
              \/ overloads[i].access_specifier = "PRIVATE"
    THEN member_blocks_Reversed(target_abi, klass, overloads, i + 1)
    ELSE IF klass.no_arg_parser
    THEN [raised |-> FALSE, blocks |-> <<Block(i, TRUE, <<>>, FALSE)>>]
    ELSE LET body == _function_body(target_abi, klass, overloads, i)
             rest == member_blocks_Reversed(target_abi, klass, overloads,
                                            i + 1)
         IN  [raised |-> body.raised \/ rest.raised,
              blocks |-> rest.blocks \o <<body.block>>]

RECURSIVE member_blocks(_, _, _, _)
member_blocks(target_abi, klass, overloads, i) ==
    IF i > Len(overloads) THEN [raised |-> FALSE, blocks |-> <<>>]
    ELSE IF skip_overload(overloads[i], klass.inherited, FALSE)
              \/ overloads[i].access_specifier = "PRIVATE"
    THEN member_blocks(target_abi, klass, overloads, i + 1)
    ELSE IF klass.no_arg_parser
    THEN [raised |-> FALSE, blocks |-> <<Block(i, TRUE, <<>>, FALSE)>>]
    ELSE LET body == _function_body(target_abi, klass, overloads, i)
             rest == member_blocks(target_abi, klass, overloads, i + 1)
         IN  [raised |-> body.raised \/ rest.raised,
              blocks |-> <<body.block>> \o rest.blocks]

\* code.py lines 3662-3798.
_member_function(target_abi, klass, overloads) ==
    IF ~need_method(klass, overloads)
    THEN [raised |-> FALSE, blocks |-> <<>>]
    ELSE member_blocks(target_abi, klass, overloads, 1)

\* backend.py lines 1604-1623: the blocks of the constructors.
RECURSIVE ctor_blocks(_, _, _)
ctor_blocks(target_abi, ctors, i) ==
    IF i > Len(ctors) THEN [raised |-> FALSE, blocks |-> <<>>]
    ELSE IF ctors[i].access_specifier = "PRIVATE"
    THEN ctor_blocks(target_abi, ctors, i + 1)
    ELSE LET res  == g_arg_parser(target_abi, "class", ctors[i].args,
                                  Some([kw_args |-> "NONE"]), None)
             rest == ctor_blocks(target_abi, ctors, i + 1)
         IN  [raised |-> res.raised \/ rest.raised,
              blocks |-> <<Block(i, FALSE, res.format_s, FALSE)>>
                             \o rest.blocks]

\* backend.py lines 1593-1628.  Line 1596 reads klass_name, which is
\* assigned at line 1601 at the earliest, when the class has a shadow class:
\* UnboundLocalError.
g_type_init_body(target_abi, klass, ctors) ==
    IF klass.has_shadow THEN [raised |-> TRUE, blocks |-> <<>>]
    ELSE ctor_blocks(target_abi, ctors, 1)

(***************************************************************************)
(* The generated function when it is called with nr_args ints.             *)
(***************************************************************************)
\* The parser of a block takes the call.
parses(block, nr_args) ==
    \/ block.raw
    \/ /\ ~block.never_reached
       /\ required_args(block.format_s) <= nr_args
       /\ nr_args <= allowed_args(block.format_s)

\* The blocks are run from the top and the first whose parser takes the
\* call returns: its overload is the one called, 0 when there is none.
call_generated(blocks, nr_args) ==
    IF \E b \in 1..Len(blocks) : parses(blocks[b], nr_args)
    THEN blocks[CHOOSE b \in 1..Len(blocks) :
                    /\ parses(blocks[b], nr_args)
                    /\ \A c \in 1..(b - 1) : ~parses(blocks[c], nr_args)].decl
    ELSE 0

(***************************************************************************)
(* The body generated for one constructor (Backend.g_type_init_body() and  *)
(* Backend._g_ctor_call()) or for one overload (_function_body() and       *)
(* _function_call()), as the sequence of the statements written.           *)
(***************************************************************************)
Stmt(s, nr) ==
    [s |-> s, nr |-> nr, in_catch |-> FALSE, action |-> "", format |-> <<>>,
     values |-> <<>>]

\* A statement that returns a value or assigns it to sipResObj.
ActionStmt(action, s, nr) == [Stmt(s, nr) EXCEPT !.action = action]

Val(name, nr) == [name |-> name, nr |-> nr]

Optionally(cond, stmts) == IF cond THEN stmts ELSE <<>>

RECURSIVE Concat(_)
Concat(ss) == IF ss = <<>> THEN <<>> ELSE Head(ss) \o Concat(Tail(ss))

\* utils.py lines 141-144.
release_gil(gil_action, bindings) ==
    IF gil_action = "DEFAULT" THEN bindings.release_gil
    ELSE gil_action = "RELEASE"

\* utils.py lines 25-31.
get_convert_to_type_code(arg) ==
    IF arg.type \in {"CLASS", "MAPPED"} /\ ~arg.is_constrained
    THEN arg.definition.convert_to_type_code
    ELSE None

\* code.py lines 4830-4842.
_need_new_instance(arg) ==
    /\ ~arg.is_in /\ arg.is_out
    /\ \/ arg.is_reference /\ Len(arg.derefs) = 0
       \/ ~arg.is_reference /\ Len(arg.derefs) = 1

\* backend.py lines 3147-3152.
_handling_exceptions_AnyThrow(bindings, throw_args) ==
    bindings.exceptions

_handling_exceptions(bindings, throw_args) ==
    bindings.exceptions
        /\ (throw_args = None \/ throw_args[1].arguments # None)

\* backend.py lines 1390-1400.
g_try(bindings, throw_args) ==
    IF ~_handling_exceptions(bindings, throw_args) THEN <<>>
    ELSE <<Stmt("try {", -1)>>

\* backend.py lines 783-845, the statements of one argument.
delete_temporary(c_bindings, arg, nr) ==
    IF arg.array = "ARRAY" /\ arg.type \in {"CLASS", "MAPPED"}
    THEN Optionally(arg.transfer # "TRANSFER",
             Optionally(arg.type = "CLASS" /\ abi_supports_array,
                        <<Stmt("if (IsTemp)", nr)>>)
             \o <<Stmt(IF c_bindings THEN "sipFree" ELSE "delete[]", nr)>>)
    ELSE IF ~arg.is_in THEN <<>>
    ELSE IF arg.type \in EncodedStrings /\ Len(arg.derefs) = 1
    THEN <<Stmt(IF arg.default_value # None THEN "Py_XDECREF(Keep)"
                ELSE "Py_DECREF(Keep)", nr)>>
    ELSE IF arg.type = "WSTRING" /\ Len(arg.derefs) = 1
    THEN <<Stmt("sipFree", nr)>>
    ELSE <<>>

\* Lines 830 and 840 call get_user_state_suffix() and
\* type_needs_user_state(), which backend.py neither defines nor imports.
g_delete_temporaries_raises(args_) ==
    \E i \in 1..Len(args_) :
        /\ ~(args_[i].array = "ARRAY" /\ args_[i].type \in {"CLASS", "MAPPED"})
        /\ args_[i].is_in
        /\ ~(args_[i].type \in EncodedStrings /\ Len(args_[i].derefs) = 1)
        /\ ~(args_[i].type = "WSTRING" /\ Len(args_[i].derefs) = 1)
        /\ get_convert_to_type_code(args_[i]) # None
        /\ ~(args_[i].type = "MAPPED" /\ args_[i].definition.no_release)

g_delete_temporaries(c_bindings, args_) ==
    Concat([i \in 1..Len(args_) |-> delete_temporary(c_bindings, args_[i], i - 1)])

\* backend.py lines 2326-2333: line 2332 calls _need_new_instance(), which
\* backend.py neither defines nor imports, for a class or a mapped type.
_g_delete_outs_raises(args_) ==
    \E i \in 1..Len(args_) : args_[i].type \in {"CLASS", "MAPPED"}

InCatch(stmts) == [i \in 1..Len(stmts) |-> [stmts[i] EXCEPT !.in_catch = TRUE]]

\* backend.py lines 555-606, with abi_has_next_exception_handler() True
\* (lines 1674-1677): no catch block is written for a named exception.
g_catch_raises(bindings, args_, throw_args) ==
    /\ _handling_exceptions(bindings, throw_args)
    /\ _g_delete_outs_raises(args_) \/ g_delete_temporaries_raises(args_)

g_catch_Unblocked(c_bindings, bindings, args_, throw_args, rel_gil) ==
    IF ~_handling_exceptions(bindings, throw_args) THEN <<>>
    ELSE <<Stmt("}", -1), Stmt("catch (...) {", -1)>>
         \o InCatch(g_delete_temporaries(c_bindings, args_)
                    \o <<Stmt("sipNextExceptionHandler", -1),
                         Stmt("sipRaiseUnknownException", -1),
                         Stmt("return SIP_NULLPTR", -1)>>)
         \o <<Stmt("}", -1)>>

g_catch(c_bindings, bindings, args_, throw_args, rel_gil) ==
    IF ~_handling_exceptions(bindings, throw_args) THEN <<>>
    ELSE <<Stmt("}", -1), Stmt("catch (...) {", -1)>>
         \o InCatch(Optionally(rel_gil, <<Stmt("Py_BLOCK_THREADS", -1)>>)
                    \o g_delete_temporaries(c_bindings, args_)
                    \o <<Stmt("sipNextExceptionHandler", -1),
                         Stmt("sipRaiseUnknownException", -1),
                         Stmt("return SIP_NULLPTR", -1)>>)
         \o <<Stmt("}", -1)>>

\* backend.py lines 2234-2238: "a bit of a hack to say we want the result
\* transferred".
owner_transfer_Always(ctor) ==
    <<Stmt("*sipOwner = Py_None", -1)>>

owner_transfer(ctor) ==
    Optionally(ctor.transfer = "TRANSFER", <<Stmt("*sipOwner = Py_None", -1)>>)

\* backend.py lines 2240-2249.
keep_references(args_) ==
    Concat([i \in 1..Len(args_) |->
               Optionally(args_[i].is_in /\ args_[i].key # None,
                          <<Stmt("sipKeepReference", i - 1)>>)])

\* backend.py lines 914-920.
g_gc_ellipsis(args_) ==
    Optionally(Len(args_) > 0 /\ args_[Len(args_)].type = "ELLIPSIS",
               <<Stmt("Py_DECREF", Len(args_) - 1)>>)

\* backend.py lines 2164-2324, for a constructor without %PreMethodCode,
\* /Deprecated/, hooks, /RaisesPyException/ or a cast, whose %MethodCode
\* does not use the error flag, in a class without a shadow class.
_g_ctor_call_raises(c_bindings, bindings, ctor) ==
    \/ /\ ctor.method_code = None /\ ~c_bindings
       /\ g_catch_raises(bindings, ctor.args, ctor.throw_args)
    \/ g_delete_temporaries_raises(ctor.args)

_g_ctor_call(c_bindings, bindings, ctor) ==
    LET rel_gil == release_gil(ctor.gil_action, bindings)
    IN  <<Stmt("{", -1)>>
        \o (IF ctor.method_code # None THEN <<Stmt("method_code", -1)>>
            ELSE IF c_bindings THEN <<Stmt("sipCpp = sipMalloc", -1)>>
            ELSE Optionally(rel_gil, <<Stmt("Py_BEGIN_ALLOW_THREADS", -1)>>)
                 \o g_try(bindings, ctor.throw_args)
                 \o <<Stmt("sipCpp = new", -1)>>
                 \o g_catch(c_bindings, bindings, ctor.args, ctor.throw_args,
                            rel_gil)
                 \o Optionally(rel_gil, <<Stmt("Py_END_ALLOW_THREADS", -1)>>)
                 \o owner_transfer(ctor))
        \o keep_references(ctor.args)
        \o g_gc_ellipsis(ctor.args)
        \o g_delete_temporaries(c_bindings, ctor.args)
        \o <<Stmt("return sipCpp", -1), Stmt("}", -1)>>

\* code.py lines 4207-4215.
_is_string(type) ==
    Len(type.derefs) - (IF type.is_out /\ ~type.is_reference THEN 1 ELSE 0) > 0

\* code.py lines 4128-4204.
_get_build_result_format(type) ==
    LET t == type.type
    IN  CASE t \in {"CLASS", "MAPPED"} ->
                 IF _need_new_instance(type) THEN <<"N">> ELSE <<"D">>
          [] t = "FAKE_VOID" -> <<"D">>
          [] t \in {"BOOL", "CBOOL"} -> <<"b">>
          [] t \in EncodedStrings ->
                 IF _is_string(type) THEN <<"A">> ELSE <<"a">>
          [] t \in {"SSTRING", "USTRING", "STRING"} ->
                 IF _is_string(type) THEN <<"s">> ELSE <<"c">>
          [] t = "WSTRING" -> IF _is_string(type) THEN <<"x">> ELSE <<"w">>
          [] t = "ENUM" ->
                 IF type.definition.fq_cpp_name # None THEN <<"F">> ELSE <<"e">>
          [] t \in {"BYTE", "SBYTE"} -> <<"L">>
          [] t = "UBYTE" -> <<"M">>
          [] t = "SHORT" -> <<"h">>
          [] t = "USHORT" -> <<"t">>
          [] t \in {"INT", "CINT"} -> <<"i">>
          [] t = "UINT" -> <<"u">>
          [] t = "SIZE" -> <<"=">>
          [] t = "LONG" -> <<"l">>
          [] t = "ULONG" -> <<"m">>
          [] t = "LONGLONG" -> <<"n">>
          [] t = "ULONGLONG" -> <<"o">>
          [] t \in {"STRUCT", "UNION", "VOID"} -> <<"V">>
          [] t = "CAPSULE" -> <<"z">>
          [] t \in {"FLOAT", "CFLOAT"} -> <<"f">>
          [] t \in {"DOUBLE", "CDOUBLE"} -> <<"d">>
          [] t \in {"PYOBJECT", "PYTUPLE", "PYLIST", "PYDICT", "PYCALLABLE",
                    "PYSLICE", "PYTYPE", "PYBUFFER", "PYENUM"} -> <<"R">>
          [] OTHER -> <<>>

\* code.py lines 3862-3864.
has_result(overload) ==
    ~(overload.result.type = "VOID" /\ Len(overload.result.derefs) = 0)

\* code.py lines 3866-3877.
nr_return_values(overload) ==
    (IF has_result(overload) THEN 1 ELSE 0)
    + Cardinality({i \in 1..Len(overload.args) : overload.args[i].is_out})

\* code.py lines 3939-3956: the values passed to sipBuildResult().
build_result_value(arg, nr) ==
    Optionally(arg.is_out,
        <<Val("a", nr)>>
        \o (IF arg.type \in {"CLASS", "MAPPED"}
            THEN <<Val("type_ref", nr),
                   Val(IF arg.transfer = "TRANSFER_BACK" THEN "Py_None"
                       ELSE "SIP_NULLPTR", nr)>>
            ELSE IF arg.type = "ENUM" /\ arg.definition.fq_cpp_name # None
            THEN <<Val("type_ref", nr)>>
            ELSE <<>>))

\* code.py lines 3850-4125, for an overload that is neither a factory nor
\* static.  The conversion of a single value (lines 3980-4125) is written
\* as one statement.
_handle_result(target_abi, overload, action) ==
    LET result   == overload.result
        is_class == has_result(overload) /\ result.type \in {"CLASS", "MAPPED"}
        nr       == nr_return_values(overload)
        only_out == IF \E i \in 1..Len(overload.args) : overload.args[i].is_out
                    THEN CHOOSE i \in 1..Len(overload.args) :
                             /\ overload.args[i].is_out
                             /\ \A j \in (i + 1)..Len(overload.args) :
                                    ~overload.args[j].is_out
                    ELSE 0
    IN  IF nr = 0 THEN <<Stmt("Py_INCREF(Py_None)", -1),
                         ActionStmt(action, "Py_None", -1)>>
        ELSE IF is_class /\ nr = 1
        THEN <<ActionStmt(action, "sipConvertFromType", -1)>>
        ELSE Optionally(is_class,
                        <<ActionStmt("PyObject *sipResObj =", "sipConvertFromType", -1)>>)
             \o (IF nr > 1
                 THEN <<[ActionStmt(action, "sipBuildResult", -1) EXCEPT
                            !.format =
                                Optionally(has_result(overload),
                                    IF is_class THEN <<"R">>
                                    ELSE _get_build_result_format(result))
                                \o Concat([i \in 1..Len(overload.args) |->
                                       Optionally(overload.args[i].is_out,
                                           _get_build_result_format(
                                               overload.args[i]))]),
                            !.values =
                                Optionally(AbiGE(target_abi, <<14, 0>>),
                                           <<Val("sipModule", -1)>>)
                                \o <<Val("SIP_NULLPTR", -1)>>
                                \o Optionally(has_result(overload),
                                       <<Val(IF is_class THEN "sipResObj"
                                             ELSE "sipRes", -1)>>
                                       \o Optionally(
                                              result.type = "ENUM"
                                                  /\ result.definition.fq_cpp_name # None,
                                              <<Val("type_ref", -1)>>))
                                \o Concat([i \in 1..Len(overload.args) |->
                                       build_result_value(overload.args[i],
                                                          i - 1)])]>>
                 ELSE <<ActionStmt(action, "convert", only_out - 1)>>)

\* code.py lines 4250-4556, for a function of the module (scope None) that
\* has no slot, is not a factory, is public and not abstract, without
\* %PreMethodCode, /Deprecated/, hooks, /RaisesPyException/, /KeepReference/
\* or /ResultSize/, and whose %MethodCode does not use the error flag.
_function_call_raises(bindings, overload) ==
    \/ /\ overload.method_code = None
       /\ g_catch_raises(bindings, overload.args, overload.throw_args)
    \/ g_delete_temporaries_raises(overload.args)

_function_call(target_abi, bindings, overload) ==
    LET rel_gil == release_gil(overload.gil_action, bindings)
        delete_temporaries ==
            ~\E i \in 1..Len(overload.args) :
                /\ overload.args[i].is_in /\ overload.args[i].is_out
                /\ get_convert_to_type_code(overload.args[i]) # None
        post_process == ~delete_temporaries
    IN  <<Stmt("{", -1)>>
        \o Optionally(has_result(overload), <<Stmt("sipRes", -1)>>)
        \o Concat([i \in 1..Len(overload.args) |->
               Optionally(overload.args[i].type \in {"CLASS", "MAPPED"}
                              /\ _need_new_instance(overload.args[i]),
                          <<Stmt("new", i - 1)>>)])
        \o Optionally(post_process, <<Stmt("PyObject *sipResObj", -1)>>)
        \o (IF overload.method_code # None THEN <<Stmt("method_code", -1)>>
            ELSE Optionally(rel_gil, <<Stmt("Py_BEGIN_ALLOW_THREADS", -1)>>)
                 \o g_try(bindings, overload.throw_args)
                 \o <<Stmt("call", -1)>>
                 \o g_catch(FALSE, bindings, overload.args,
                            overload.throw_args, rel_gil)
                 \o Optionally(rel_gil, <<Stmt("Py_END_ALLOW_THREADS", -1)>>))
        \o Concat([i \in 1..Len(overload.args) |->
               Optionally(overload.args[i].is_in
                              /\ overload.args[i].transfer = "TRANSFER_THIS",
                          <<Stmt("sipTransferTo(sipSelf, sipOwner)", i - 1)>>)])
        \o g_gc_ellipsis(overload.args)
        \o Optionally(delete_temporaries,
                      g_delete_temporaries(FALSE, overload.args))
        \o _handle_result(target_abi, overload,
                          IF post_process THEN "sipResObj =" ELSE "return")
        \o Optionally(~delete_temporaries,
                      g_delete_temporaries(FALSE, overload.args))
        \o Optionally(post_process, <<Stmt("return sipResObj", -1)>>)
        \o <<Stmt("}", -1)>>

(***************************************************************************)
(* The catcher of a virtual (_virtual_catcher()) and the handler it calls  *)
(* (_virtual_handler()), as the sequence of the statements written.        *)
(***************************************************************************)
\* code.py line 2559 (and line 2865): the default constructor can be called.
usable_default_ctor_AnyCtor(ctor) ==
    ctor # None

usable_default_ctor(ctor) ==
    /\ ctor # None
    /\ ctor[1].access_specifier = "PUBLIC"
    /\ ctor[1].cpp_signature # None

\* code.py lines 2501-2573.  The write of 'return ' at line 2542 comes
\* before the exception of line 2568 is raised.
_default_instance_return(result) ==
    IF result = None
    THEN [raised |-> FALSE, stmts |-> <<Stmt("return;", -1)>>]
    ELSE IF Len(result[1].derefs) = 0
              /\ result[1].type \in {"CLASS", "MAPPED"}
              /\ result[1].definition.instance_code # None
    THEN [raised |-> FALSE,
          stmts |-> <<Stmt("static sipCpp", -1), Stmt("instance_code", -1),
                      Stmt("return *sipCpp;", -1)>>]
    ELSE IF result[1].type = "MAPPED" /\ Len(result[1].derefs) = 0
    THEN [raised |-> FALSE, stmts |-> <<Stmt("return T();", -1)>>]
    ELSE IF result[1].type = "CLASS" /\ Len(result[1].derefs) = 0
    THEN IF usable_default_ctor(result[1].definition.default_ctor)
         THEN [raised |-> FALSE, stmts |-> <<Stmt("return T();", -1)>>]
         ELSE [raised |-> TRUE, stmts |-> <<Stmt("return ", -1)>>]
    ELSE [raised |-> FALSE, stmts |-> <<Stmt("return 0;", -1)>>]

\* code.py lines 2318-2319 and 2790: a void result is no result.
returned(result) ==
    IF result.type = "VOID" /\ Len(result.derefs) = 0 THEN None
    ELSE Some(result)

\* code.py lines 2372-2473: lines 2399 and 2407 read the global backend,
\* which code.py does not define: NameError, once there is a result or an
\* argument that is passed back.
_virtual_handler_call_raises(virtual) ==
    returned(virtual.result) # None \/ virtual.nr_out > 0

\* code.py lines 2265-2369, without tracing and /NewThread/.  The value is
\* "fatal" for the UserException, "error" for another exception.
_virtual_catcher(virtual) ==
    LET result   == returned(virtual.result)
        instance == _default_instance_return(result)
        head_    == <<Stmt("sipMeth = sipIsPyMethod", -1),
                      Stmt("if (!sipMeth)", -1)>>
        direct   == head_
                    \o (IF virtual.virtual_call_code # None
                        THEN <<Stmt("virtual_call_code", -1),
                               Stmt(IF result # None THEN "return sipRes;"
                                    ELSE "return;", -1)>>
                        ELSE IF virtual.is_abstract THEN instance.stmts
                        ELSE <<Stmt(IF result # None THEN "return T::f();"
                                    ELSE "T::f(); return;", -1)>>)
    IN  IF virtual.virtual_call_code = None /\ virtual.is_abstract
               /\ instance.raised
        THEN [pc |-> "fatal", stmts |-> direct]
        ELSE IF _virtual_handler_call_raises(virtual)
        THEN [pc |-> "error", stmts |-> direct \o <<Stmt("extern sipVH", -1)>>]
        ELSE [pc |-> "done",
              stmts |-> direct \o <<Stmt("extern sipVH", -1),
                                    Stmt("sipVH();", -1)>>]

\* code.py lines 2779-3031, for a result that is void, an int, a class or a
\* mapped type, without %VirtualCatcherCode that uses the error flag.
_virtual_handler(virtual) ==
    LET result  == virtual.result
        result_is_returned == returned(result) # None
        by_value == /\ result_is_returned
                    /\ result.type \in {"CLASS", "MAPPED"}
                    /\ Len(result.derefs) = 0
        result_is_reference == by_value /\ result.is_reference
        result_instance_code ==
            IF by_value /\ ~result.is_reference
            THEN result.definition.instance_code ELSE None
        nr_values == (IF result_is_returned THEN 1 ELSE 0) + virtual.nr_out
        instance == _default_instance_return(Some(result))
        decl == Optionally(result_is_returned,
                    Optionally(result_instance_code # None,
                               <<Stmt("static sipCpp", -1),
                                 Stmt("instance_code", -1)>>)
                    \o <<Stmt("sipRes", -1)>>)
        call == decl \o <<Stmt("sipResObj = sipCallMethod", -1),
                          Stmt(IF result_is_reference
                                      \/ virtual.abort_on_exception
                               THEN "int sipRc = sipParseResultEx"
                               ELSE "sipParseResultEx", -1)>>
        test == call \o <<Stmt("if (sipRc < 0)", -1)>>
    IN  IF virtual.virtual_catcher_code # None
        THEN [pc |-> "done",
              stmts |-> decl \o <<Stmt("virtual_catcher_code", -1),
                                  Stmt("Py_DECREF(sipMethod)", -1),
                                  Stmt("SIP_RELEASE_GIL", -1)>>
                        \o Optionally(result_is_returned,
                                      <<Stmt("return sipRes;", -1)>>)]
        ELSE IF nr_values = 0
        THEN [pc |-> "done",
              stmts |-> decl \o <<Stmt("sipCallProcedureMethod", -1)>>]
        ELSE IF ~result_is_returned
        THEN [pc |-> "done", stmts |-> call]
        ELSE IF ~(result_is_reference \/ virtual.abort_on_exception)
        THEN [pc |-> "done", stmts |-> call \o <<Stmt("return sipRes;", -1)>>]
        ELSE IF virtual.abort_on_exception
        THEN [pc |-> "done",
              stmts |-> test \o <<Stmt("abort();", -1),
                                  Stmt("return sipRes;", -1)>>]
        ELSE IF instance.raised
        THEN [pc |-> "fatal", stmts |-> test \o instance.stmts]
        ELSE [pc |-> "done",
              stmts |-> test \o instance.stmts \o <<Stmt("return sipRes;", -1)>>]

(***************************************************************************)
(* An object that is passed to a generated function: what the parser of    *)
(* the support library does with its ownership.                            *)
(***************************************************************************)
\* The flags of the sub-format character of the only argument of a format.
parsed_flags(format) ==
    flags_of(format[(CHOOSE i \in 1..Len(format) : format[i] = "J") + 1])

\* The parser acts on the transfer bits: a transferred object is owned by
\* the native side, one transferred back gets the owner that the library
\* gives it, which does not depend on the owner it had.
parse_transfer_Restoring(flags, ownership) ==
    IF HasBit(flags, 2) \/ HasBit(flags, 16)
    THEN [ownership EXCEPT !.state = "native"]
    ELSE IF HasBit(flags, 4)
    THEN [ownership EXCEPT !.state = ownership.before]
    ELSE ownership

parse_transfer(flags, ownership) ==
    IF HasBit(flags, 2) \/ HasBit(flags, 16)
    THEN [ownership EXCEPT !.state = "native"]
    ELSE IF HasBit(flags, 4)
    THEN [ownership EXCEPT !.state = ownership.after_back]
    ELSE ownership

(***************************************************************************)
(* The edits of the Specification that are made while code is generated.   *)
(* An edit that the code undoes is modelled as the edit followed by the     *)
(* assignments that undo it.                                                *)
(***************************************************************************)
\* utils.py lines 11-14.
arg_is_small_enum(arg) ==
    arg.type = "ENUM" /\ arg.definition.enum_base_type # None

\* backend.py lines 2004-2029: the argument as its variable is declared.
adjusted_argument(arg) ==
    LET nr_derefs == Len(arg.derefs)
        derefs ==
            IF arg.type \in EncodedStrings
                   \cup {"SSTRING", "USTRING", "STRING", "WSTRING"}
            THEN IF arg.is_reference THEN arg.derefs
                 ELSE IF nr_derefs = 2 THEN SubSeq(arg.derefs, 1, 1)
                 ELSE IF nr_derefs = 1 /\ arg.is_out THEN <<>>
                 ELSE arg.derefs
            ELSE IF arg.type \in {"CLASS", "MAPPED", "STRUCT", "UNION", "VOID"}
            THEN <<IF nr_derefs # 0 THEN arg.derefs[1] ELSE FALSE>>
            ELSE <<>>
        type ==
            IF arg.array = "ARRAY_SIZE" THEN "SSIZE"
            ELSE IF arg_is_small_enum(arg) THEN "INT"
            ELSE arg.type
    IN  [arg EXCEPT !.derefs = derefs, !.type = type,
                    !.is_reference = FALSE,
                    !.is_const = IF Len(derefs) = 0 THEN FALSE ELSE @]

\* backend.py lines 1998-2001 and 2037-2040: what is saved before the
\* adjustment is assigned back after the declaration is written.
_g_argument_variable_SavedType(arg) ==
    [adjusted_argument(arg) EXCEPT !.type = arg.type]

_g_argument_variable(arg) ==
    [adjusted_argument(arg) EXCEPT !.derefs = arg.derefs,
                                   !.type = arg.type,
                                   !.is_reference = arg.is_reference,
                                   !.is_const = arg.is_const]

\* backend.py lines 1801-1823.
get_named_value_decl(type) ==
    LET edited ==
            [type EXCEPT
                !.derefs = IF Len(type.derefs) = 0
                                  /\ type.type \in {"CLASS", "MAPPED"}
                           THEN <<FALSE>> ELSE @,
                !.is_const = IF Len(type.derefs) = 0
                                  /\ type.type \notin {"CLASS", "MAPPED"}
                             THEN FALSE ELSE @,
                !.is_reference = FALSE]
    IN  [edited EXCEPT !.derefs = type.derefs, !.is_const = type.is_const,
                       !.is_reference = type.is_reference]

\* code.py lines 4845-4863: the arguments as faked and what is saved of
\* each faked one (its place, and for a class its derefs and is_reference).
_fake_protected_args(args_) ==
    [args |->
        [i \in 1..Len(args_) |->
            IF args_[i].type = "ENUM" /\ args_[i].definition.is_protected
            THEN [args_[i] EXCEPT !.type = "INT"]
            ELSE IF args_[i].type = "CLASS"
                      /\ args_[i].definition.is_protected
            THEN [args_[i] EXCEPT !.type = "FAKE_VOID", !.derefs = <<FALSE>>,
                                  !.is_reference = FALSE]
            ELSE args_[i]],
     protection_state |->
        [i \in {j \in 1..Len(args_) :
                    /\ args_[j].type \in {"ENUM", "CLASS"}
                    /\ args_[j].definition.is_protected} |->
            IF args_[i].type = "ENUM" THEN [is_argument |-> TRUE]
            ELSE [is_argument |-> FALSE, derefs |-> args_[i].derefs,
                  is_reference |-> args_[i].is_reference]]]

\* code.py lines 4866-4876.
_restore_protected_args(args_, protection_state) ==
    [i \in 1..Len(args_) |->
        IF i \notin DOMAIN protection_state THEN args_[i]
        ELSE IF protection_state[i].is_argument
        THEN [args_[i] EXCEPT !.type = "ENUM"]
        ELSE [args_[i] EXCEPT !.type = "CLASS",
                              !.derefs = protection_state[i].derefs,
                              !.is_reference = protection_state[i].is_reference]]

\* code.py lines 4879-4886, 4900-4904: the argument with the protection of
\* its definition removed, and with it put back.
_remove_protection(arg) ==
    IF arg.type \in {"CLASS", "ENUM"} /\ arg.definition.is_protected
    THEN [arg EXCEPT !.definition.is_protected = FALSE]
    ELSE arg

_restore_protections(arg, was_removed) ==
    IF was_removed THEN [arg EXCEPT !.definition.is_protected = TRUE]
    ELSE arg

\* code.py lines 3595-3612, 2279-2291: _remove_protections() on the result
\* and on every argument, the declaration, then _restore_protections().
_overload_decl(signature) ==
    LET removed(arg) == _remove_protection(arg) # arg
    IN  [result |-> _restore_protections(_remove_protection(signature.result),
                                         removed(signature.result)),
         args |-> [i \in 1..Len(signature.args) |->
                      _restore_protections(
                          _remove_protection(signature.args[i]),
                          removed(signature.args[i]))]]

\* code.py lines 4218-4247, using_copy_ctor being False.
_needs_heap_copy(arg) ==
    /\ ~arg.no_copy /\ arg.type \in {"CLASS", "MAPPED"} /\ Len(arg.derefs) = 0
    /\ ~arg.is_reference \/ arg.is_const
    /\ \/ arg.type = "MAPPED"
       \/ /\ ~arg.definition.is_abstract
          /\ ~arg.definition.cannot_copy \/ ~arg.definition.cannot_assign

\* code.py lines 4273-4279 and 4556: the result of _function_call() while
\* the call is written, and once it has been written.
result_in_call(result) ==
    IF _needs_heap_copy(result) THEN [result EXCEPT !.is_const = FALSE]
    ELSE result

result_after_call(result) ==
    [result_in_call(result) EXCEPT !.is_const = result.is_const]

\* code.py lines 3833-3834: the argument that stands for self.
SelfArg ==
    [IntArg EXCEPT !.type = "CLASS", !.is_reference = TRUE,
                   !.definition.fq_cpp_name = Some("original_klass")]

\* code.py lines 3826-3837: a number slot with one argument is given self
\* as its first argument.
py_signature_adjusted(py_slot, args_) ==
    is_number_slot(py_slot) /\ Len(args_) = 1

adjusted_args(py_slot, args_) ==
    IF py_signature_adjusted(py_slot, args_)
    THEN <<SelfArg>> \o SubSeq(Append(args_, args_[1]), 2, 2)
    ELSE args_

\* code.py lines 3847-3848: del overload.py_signature.args[0].
unadjusted_args(py_slot, args_, during) ==
    IF py_signature_adjusted(py_slot, args_) THEN Tail(during) ELSE during

\* backend.py lines 2503-2505: the index of each member in the table.
_g_py_method_table(members) ==
    [i \in 1..Len(members) |-> [members[i] EXCEPT !.member_nr = i - 1]]

(***************************************************************************)
(* The state.                                                              *)
(***************************************************************************)
VARIABLES
    spec,       \* the Specification: target_abi, is_composite, the module
    next_key,   \* spec.module.next_key
    backend,    \* what Backend.factory(spec) gave
    pc,         \* "start", "done", "called" or "error" (an exception)
    run,        \* the number of the generation run
    out,        \* the output of this run
    prev_out,   \* the output of the run before
    args,       \* py_signature.args
    shape,      \* the scope, ctor and overload given to g_arg_parser()
    res,        \* what g_arg_parser() wrote
    klass,      \* the class and member a function is generated for
    overloads,  \* original_klass.overloads or klass.ctors
    emitted,    \* the blocks of the generated function
    nr_args,    \* the number of arguments of a call of it
    selected,   \* the overload that call reaches
    callable,   \* the constructor or the overload a body is generated for
    body,       \* the statements of that body
    ownership,  \* who owns the object that is passed to two functions
    tree,       \* the part of the Specification an emission function edits
    tree_before,\* that part as it was when the function was called
    emission,   \* the emission function that has returned
    extension_data, \* extendable.extension_data of every extendable object
    factory_calls,  \* how often a factory was called for an object and a name
    call,       \* the last call of get_extension_data() and what it returned
    sf,         \* a SourceFile: what was written to _f, and _line_nr
    build,      \* bindings.concatenate and spec.iface_files
    sources,    \* buildable.sources: the source files that were created
    shadow_klass, \* the class a shadow class is generated for
    shadow,     \* the shadow class: its declaration and its code
    names,      \* spec.name_cache, the list made of it and the string pool
    module_state, \* what the wrapped module's definition is written from
    sipWrappedModule \* the designators of the wrapped module's definition

\* The variables of the specifications that come after SpecTransfer.
extras ==
    <<tree, tree_before, emission, extension_data, factory_calls, call, sf,
      build, sources, shadow_klass, shadow, names, module_state,
      sipWrappedModule>>

vars ==
    <<spec, next_key, backend, pc, run, out, prev_out, args, shape, res,
      klass, overloads, emitted, nr_args, selected, callable, body,
      ownership, extras>>

CurrentAbis == {a \in AbiVersions : AbiGE(a, <<14, 0>>)}

\* The variables of a module, each with its own Python name.
VarSet ==
    {[py_name |-> "a", type |-> "INT", derefs |-> 0, is_const |-> FALSE,
      no_setter |-> FALSE, named |-> FALSE],
     [py_name |-> "b", type |-> "STRING", derefs |-> 1, is_const |-> TRUE,
      no_setter |-> FALSE, named |-> FALSE],
     [py_name |-> "c", type |-> "WSTRING", derefs |-> 1, is_const |-> FALSE,
      no_setter |-> FALSE, named |-> FALSE],
     [py_name |-> "d", type |-> "STRING", derefs |-> 1, is_const |-> FALSE,
      no_setter |-> FALSE, named |-> FALSE],
     [py_name |-> "e", type |-> "CLASS", derefs |-> 0, is_const |-> FALSE,
      no_setter |-> FALSE, named |-> TRUE],
     [py_name |-> "f", type |-> "STRUCT", derefs |-> 1, is_const |-> FALSE,
      no_setter |-> TRUE, named |-> TRUE]}

Variables ==
    {vs \in SeqsUpTo(VarSet, MaxVars) :
        \A i, j \in 1..Len(vs) : i # j => vs[i] # vs[j]}

NeededEnums ==
    {<<>>, <<[cpp_name |-> "E", py_name |-> "E", is_scoped |-> FALSE]>>}

EmptySpec(target_abi) ==
    [target_abi |-> target_abi, is_composite |-> FALSE, py_enums |-> FALSE,
     needed_enums |-> <<>>, variables |-> <<>>]

NoShape == Shape("None", None, None)

NoKlass ==
    [kind |-> "member", has_shadow |-> FALSE, inherited |-> FALSE,
     no_arg_parser |-> FALSE]

\* The variables a specification leaves alone.
NoRun ==
    /\ next_key = -1 /\ run = 1 /\ out = <<>> /\ prev_out = <<>>

NoParse ==
    /\ args = <<>> /\ shape = NoShape /\ res = Raised(None)

NoMember ==
    /\ klass = NoKlass /\ overloads = <<>> /\ emitted = <<>>
    /\ nr_args = 0 /\ selected = 0

VoidResult == [IntArg EXCEPT !.type = "VOID", !.is_in = FALSE]

NoBindings == [exceptions |-> FALSE, release_gil |-> FALSE]

NoCallable ==
    [kind |-> "function", c_bindings |-> FALSE, bindings |-> NoBindings,
     args |-> <<>>, result |-> VoidResult, method_code |-> None,
     throw_args |-> None, gil_action |-> "DEFAULT", transfer |-> "NONE"]

NoOwnership ==
    [before |-> "interpreter", state |-> "interpreter",
     after_back |-> "interpreter"]

NoTree ==
    /\ tree = [result |-> VoidResult, args |-> <<>>, py_slot |-> "None",
               members |-> <<>>]
    /\ tree_before = tree /\ emission = "None"

Extendables == {"module", "class"}

ExtensionNames == {"pyqt", "other"}

NoCallYet == [extendable |-> "None", name |-> "None", factory |-> FALSE,
              returned |-> None, nr |-> 0]

NoExtensions ==
    /\ extension_data = [e \in Extendables |-> None]
    /\ factory_calls = [e \in Extendables |-> [n \in ExtensionNames |-> 0]]
    /\ call = NoCallYet

NoSourceFile == sf = [f |-> <<>>, _line_nr |-> 0, nr_writes |-> 0]

NoBuild ==
    /\ build = [concatenate |-> 0, iface_files |-> <<>>]
    /\ sources = <<>>

NoShadow ==
    /\ shadow_klass = [ctors |-> <<>>, virtual_overloads |-> <<>>]
    /\ shadow = [declared |-> FALSE, ctor_decls |-> <<>>,
                 catcher_decls |-> <<>>, sipPyMethods |-> -1,
                 defined |-> FALSE, ctors |-> <<>>, catchers |-> <<>>]

NoNames ==
    names = [name_cache |-> {}, name_cache_list |-> <<>>, laid_out |-> FALSE,
             sipStrings |-> <<>>, written |-> FALSE]

NoModuleDef ==
    /\ module_state = [nr_imports |-> 0, nr_needed_types |-> 0,
                       has_external |-> FALSE, custom_enums |-> FALSE,
                       nr_enum_members |-> -1, nr_typedefs |-> 0,
                       has_virtual_error_handlers |-> FALSE,
                       nr_subclass_convertors |-> 0,
                       nr_static_variables |-> 0, nr_types |-> 0,
                       license |-> FALSE, slot_extenders |-> FALSE,
                       init_extenders |-> FALSE, has_delayed_dtors |-> FALSE,
                       exceptions |-> FALSE, nr_exceptions |-> 0]
    /\ sipWrappedModule = <<>>

NoExtras ==
    /\ NoTree /\ NoExtensions /\ NoSourceFile /\ NoBuild /\ NoShadow
    /\ NoNames /\ NoModuleDef

NoCall ==
    /\ callable = NoCallable /\ body = <<>> /\ ownership = NoOwnership

(***************************************************************************)
(* Spec: output_code(), run twice on the same Specification.               *)
(***************************************************************************)
Init ==
    /\ spec \in [target_abi : AbiVersions, is_composite : BOOLEAN,
                 py_enums : BOOLEAN, needed_enums : NeededEnums,
                 variables : Variables]
    /\ next_key \in {-1, -2}
    /\ backend = "None"
    /\ pc = "start"
    /\ run = 1 /\ out = <<>> /\ prev_out = <<>>
    /\ NoParse /\ NoMember /\ NoCall /\ NoExtras

\* code.py lines 37-51.
OutputCode ==
    /\ pc = "start"
    /\ backend' = factory(spec)
    /\ IF backend' # "Backend"
       THEN pc' = "error" /\ UNCHANGED <<out, next_key>>
       ELSE IF spec.is_composite
       THEN /\ out' = _composite_module_code(spec)
            /\ pc' = "done"
            /\ UNCHANGED next_key
       ELSE /\ out' = _module_code(spec, next_key).out
            /\ next_key' = _module_code(spec, next_key).next_key
            /\ pc' = IF _module_code(spec, next_key).raised THEN "error"
                     ELSE "done"
    /\ UNCHANGED <<spec, run, prev_out, args, shape, res, klass, overloads,
                   emitted, nr_args, selected,
                   callable, body, ownership, extras>>

\* The build is run again on the Specification as the first run left it.
Rerun ==
    /\ pc = "done" /\ run = 1
    /\ run' = 2
    /\ prev_out' = out
    /\ out' = <<>>
    /\ pc' = "start"
    /\ UNCHANGED <<spec, next_key, backend, args, shape, res, klass,
                   overloads, emitted, nr_args, selected,
                   callable, body, ownership, extras>>

Next == OutputCode \/ Rerun

Spec == Init /\ [][Next]_vars

(***************************************************************************)
(* SpecArgs: g_arg_parser() on a signature and a callable.                 *)
(***************************************************************************)
nr_tagged(args_, tag) ==
    Cardinality({i \in 1..Len(args_) : args_[i].array = tag})

\* The resolver's check of a signature: /Array/ and /ArraySize/ come as one
\* pair or not at all.
array_pairing_ok_SizeOnly(args_) ==
    nr_tagged(args_, "ARRAY_SIZE") = 0
        \/ (nr_tagged(args_, "ARRAY") = 1 /\ nr_tagged(args_, "ARRAY_SIZE") = 1)

array_pairing_ok(args_) ==
    \/ nr_tagged(args_, "ARRAY") = 0 /\ nr_tagged(args_, "ARRAY_SIZE") = 0
    \/ nr_tagged(args_, "ARRAY") = 1 /\ nr_tagged(args_, "ARRAY_SIZE") = 1

resolve_signature(args_) ==
    IF array_pairing_ok(args_) THEN "start" ELSE "fatal"

InitArgs ==
    /\ spec \in {EmptySpec(a) : a \in CurrentAbis}
    /\ backend = factory(spec)
    /\ pc = "parsed"
    /\ \/ args \in SeqsUpTo(ArgSet, MaxArgs) /\ shape \in Shapes
       \/ /\ args \in WideSignatures
          /\ shape \in {Shape("None", None, Some(Function)),
                        Shape("class", Some([kw_args |-> "ALL"]), None)}
    /\ res = Raised(None)
    /\ NoRun /\ NoMember /\ NoCall /\ NoExtras

Parse ==
    /\ pc = "start"
    /\ res' = g_arg_parser(spec.target_abi, shape.scope, args, shape.ctor,
                           shape.overload)
    /\ pc' = IF res'.raised THEN "error" ELSE "done"
    /\ UNCHANGED <<spec, next_key, backend, run, out, prev_out, args, shape,
                   klass, overloads, emitted, nr_args, selected, callable, body,
      ownership, extras>>

\* The signature is resolved before any code is generated for it; a fatal
\* error ends the run.
Resolve ==
    /\ pc = "parsed"
    /\ pc' = resolve_signature(args)
    /\ UNCHANGED <<spec, next_key, backend, run, out, prev_out, args, shape,
                   res, klass, overloads, emitted, nr_args, selected,
                   callable, body, ownership, extras>>

NextArgs == Resolve \/ Parse

SpecArgs == InitArgs /\ [][NextArgs]_vars

(***************************************************************************)
(* SpecMember: a member function or a type initialisation function is      *)
(* generated and then called.                                              *)
(***************************************************************************)
Overload(nr_required, nr_optional) ==
    [common_is_member |-> TRUE, is_signal |-> FALSE, is_abstract |-> FALSE,
     access_specifier |-> "PUBLIC",
     args |-> IntSignature(nr_required, nr_optional)]

OverloadSet ==
    {Overload(0, 0), Overload(1, 0), Overload(1, 1), Overload(0, 1),
     Overload(2, 0),
     [Overload(1, 0) EXCEPT !.access_specifier = "PRIVATE"],
     [Overload(1, 0) EXCEPT !.access_specifier = "PROTECTED"],
     [Overload(1, 0) EXCEPT !.common_is_member = FALSE],
     [Overload(1, 0) EXCEPT !.is_signal = TRUE],
     [Overload(2, 0) EXCEPT !.is_abstract = TRUE,
                            !.access_specifier = "PRIVATE"]}

Klasses ==
    {k \in [kind : {"member", "ctor"}, has_shadow : BOOLEAN,
            inherited : BOOLEAN, no_arg_parser : BOOLEAN] :
        k.kind = "ctor" => ~k.inherited /\ ~k.no_arg_parser}

InitMember ==
    /\ spec \in {EmptySpec(a) : a \in CurrentAbis}
    /\ backend = factory(spec)
    /\ pc = "start"
    /\ klass \in Klasses
    /\ overloads \in SeqsUpTo(OverloadSet, MaxOverloads)
    /\ emitted = <<>> /\ nr_args = 0 /\ selected = 0
    /\ NoRun /\ NoParse /\ NoCall /\ NoExtras

MemberFunction ==
    /\ pc = "start" /\ klass.kind = "member"
    /\ emitted' = _member_function(spec.target_abi, klass, overloads).blocks
    /\ pc' = IF _member_function(spec.target_abi, klass, overloads).raised
             THEN "error" ELSE "done"
    /\ UNCHANGED <<spec, next_key, backend, run, out, prev_out, args, shape,
                   res, klass, overloads, nr_args, selected,
                   callable, body, ownership, extras>>

TypeInitBody ==
    /\ pc = "start" /\ klass.kind = "ctor"
    /\ emitted' = g_type_init_body(spec.target_abi, klass, overloads).blocks
    /\ pc' = IF g_type_init_body(spec.target_abi, klass, overloads).raised
             THEN "error" ELSE "done"
    /\ UNCHANGED <<spec, next_key, backend, run, out, prev_out, args, shape,
                   res, klass, overloads, nr_args, selected,
                   callable, body, ownership, extras>>

\* The generated function is called with n ints.
CallGenerated ==
    /\ pc = "done"
    /\ \E n \in 0..2 :
          /\ nr_args' = n
          /\ selected' = call_generated(emitted, n)
    /\ pc' = "called"
    /\ UNCHANGED <<spec, next_key, backend, run, out, prev_out, args, shape,
                   res, klass, overloads, emitted,
                   callable, body, ownership, extras>>

NextMember == MemberFunction \/ TypeInitBody \/ CallGenerated

SpecMember == InitMember /\ [][NextMember]_vars

(***************************************************************************)
(* SpecCall: the body of one constructor or of one function of the module  *)
(* is generated.                                                           *)
(***************************************************************************)
\* The arguments the signatures of the callables are made of: an int, an
\* int and a Py_hash_t passed back, an array of classes or of wide
\* characters and its length, a class that is transferred and a class
\* passed back.
CallArgSet ==
    {IntArg,
     [IntArg EXCEPT !.is_in = FALSE, !.is_out = TRUE, !.derefs = <<FALSE>>],
     [IntArg EXCEPT !.type = "HASH", !.is_in = FALSE, !.is_out = TRUE,
                    !.derefs = <<FALSE>>],
     [IntArg EXCEPT !.type = "CLASS", !.derefs = <<FALSE>>, !.array = "ARRAY"],
     [IntArg EXCEPT !.type = "WSTRING", !.derefs = <<FALSE>>,
                    !.array = "ARRAY"],
     [IntArg EXCEPT !.array = "ARRAY_SIZE"],
     [IntArg EXCEPT !.type = "CLASS", !.derefs = <<FALSE>>,
                    !.transfer = "TRANSFER"],
     [IntArg EXCEPT !.type = "CLASS", !.is_in = FALSE, !.is_out = TRUE,
                    !.derefs = <<FALSE>>]}

\* The signatures the resolver lets through.
CallSignatures ==
    {s \in SeqsUpTo(CallArgSet, MaxArgs) : array_pairing_ok(s)}

Results ==
    {VoidResult,
     [VoidResult EXCEPT !.type = "INT"],
     [VoidResult EXCEPT !.type = "CLASS", !.derefs = <<FALSE>>]}

ThrowArgs ==
    {None, Some([arguments |-> None]), Some([arguments |-> Some(<<"E">>)])}

Callables ==
    {c \in [kind : {"ctor", "function"}, c_bindings : BOOLEAN,
            bindings : [exceptions : BOOLEAN, release_gil : {FALSE}],
            args : CallSignatures, result : Results,
            method_code : {None, Some("code")}, throw_args : ThrowArgs,
            gil_action : {"DEFAULT", "RELEASE"},
            transfer : {"NONE", "TRANSFER"}] :
        /\ c.kind = "ctor" => c.result = VoidResult
        /\ c.kind = "function" => ~c.c_bindings /\ c.transfer = "NONE"}

InitCall ==
    /\ spec \in {EmptySpec(a) : a \in CurrentAbis}
    /\ backend = factory(spec)
    /\ pc = "start"
    /\ callable \in Callables
    /\ body = <<>> /\ ownership = NoOwnership
    /\ NoRun /\ NoParse /\ NoMember /\ NoExtras

\* backend.py lines 1606-1623: the parser and then the call of one
\* constructor.
CtorCall ==
    /\ pc = "start" /\ callable.kind = "ctor"
    /\ LET parser == g_arg_parser(spec.target_abi, "class", callable.args,
                                  Some([kw_args |-> "NONE"]), None)
           raised == parser.raised
                        \/ _g_ctor_call_raises(callable.c_bindings,
                                               callable.bindings, callable)
       IN  /\ pc' = IF raised THEN "error" ELSE "done"
           /\ body' = IF raised THEN <<>>
                      ELSE <<Stmt("sipParseArgs", -1)>>
                           \o _g_ctor_call(callable.c_bindings,
                                           callable.bindings, callable)
    /\ UNCHANGED <<spec, next_key, backend, run, out, prev_out, args, shape,
                   res, klass, overloads, emitted, nr_args, selected,
                   callable, ownership, extras>>

\* code.py lines 3799-3848: the parser and then the call of one overload.
FunctionCall ==
    /\ pc = "start" /\ callable.kind = "function"
    /\ LET parser == g_arg_parser(spec.target_abi, "None", callable.args,
                                  None, Some(Function))
           raised == parser.raised
                        \/ _function_call_raises(callable.bindings, callable)
       IN  /\ pc' = IF raised THEN "error" ELSE "done"
           /\ body' = IF raised THEN <<>>
                      ELSE <<Stmt("sipParseArgs", -1)>>
                           \o _function_call(spec.target_abi,
                                             callable.bindings, callable)
    /\ UNCHANGED <<spec, next_key, backend, run, out, prev_out, args, shape,
                   res, klass, overloads, emitted, nr_args, selected,
                   callable, ownership, extras>>

NextCall == CtorCall \/ FunctionCall

SpecCall == InitCall /\ [][NextCall]_vars

(***************************************************************************)
(* SpecVirtual: the catcher or the handler of one virtual is generated.    *)
(***************************************************************************)
DefaultCtors ==
    {None,
     Some([access_specifier |-> "PUBLIC", cpp_signature |-> Some(<<>>)]),
     Some([access_specifier |-> "PRIVATE", cpp_signature |-> Some(<<>>)]),
     Some([access_specifier |-> "PUBLIC", cpp_signature |-> None])}

VirtualResults ==
    [type : {"VOID", "INT", "CLASS", "MAPPED"}, derefs : {<<>>, <<FALSE>>},
     is_reference : BOOLEAN,
     definition : [instance_code : {None, Some("code")},
                   default_ctor : DefaultCtors]]

Virtuals ==
    {v \in [kind : {"catcher", "handler"}, result : VirtualResults,
            nr_out : 0..MaxArgs, virtual_call_code : {None, Some("code")},
            is_abstract : BOOLEAN, abort_on_exception : BOOLEAN,
            virtual_catcher_code : {None, Some("code")}] :
        /\ v.kind = "catcher" =>
               ~v.abort_on_exception /\ v.virtual_catcher_code = None
        /\ v.kind = "handler" =>
               ~v.is_abstract /\ v.virtual_call_code = None
        /\ v.result.type \in {"VOID", "INT"} =>
               /\ v.result.definition.instance_code = None
               /\ v.result.definition.default_ctor = None
               /\ ~v.result.is_reference}

InitVirtual ==
    /\ spec \in {EmptySpec(a) : a \in CurrentAbis}
    /\ backend = factory(spec)
    /\ pc = "start"
    /\ callable \in Virtuals
    /\ body = <<>> /\ ownership = NoOwnership
    /\ NoRun /\ NoParse /\ NoMember /\ NoExtras

VirtualCatcher ==
    /\ pc = "start" /\ callable.kind = "catcher"
    /\ pc' = _virtual_catcher(callable).pc
    /\ body' = _virtual_catcher(callable).stmts
    /\ UNCHANGED <<spec, next_key, backend, run, out, prev_out, args, shape,
                   res, klass, overloads, emitted, nr_args, selected,
                   callable, ownership, extras>>

VirtualHandler ==
    /\ pc = "start" /\ callable.kind = "handler"
    /\ pc' = _virtual_handler(callable).pc
    /\ body' = _virtual_handler(callable).stmts
    /\ UNCHANGED <<spec, next_key, backend, run, out, prev_out, args, shape,
                   res, klass, overloads, emitted, nr_args, selected,
                   callable, ownership, extras>>

NextVirtual == VirtualCatcher \/ VirtualHandler

SpecVirtual == InitVirtual /\ [][NextVirtual]_vars

(***************************************************************************)
(* SpecTransfer: one object is passed to a function and then to another,   *)
(* each with one class argument.                                           *)
(***************************************************************************)
Owners == {"interpreter", "native"}

TransferArgs ==
    {[IntArg EXCEPT !.type = "CLASS", !.derefs = <<FALSE>>, !.transfer = tr,
                    !.disallow_none = dn, !.is_constrained = c] :
        tr \in {"NONE", "TRANSFER", "TRANSFER_BACK", "TRANSFER_THIS"},
        dn \in BOOLEAN, c \in BOOLEAN}

InitTransfer ==
    /\ spec \in {EmptySpec(a) : a \in CurrentAbis}
    /\ backend = factory(spec)
    /\ pc = "start"
    /\ args \in {<<a, b>> : a \in TransferArgs, b \in TransferArgs}
    /\ shape = NoShape /\ res = Raised(None)
    /\ ownership \in {o \in [before : Owners, state : Owners,
                             after_back : Owners] : o.state = o.before}
    /\ callable = NoCallable /\ body = <<>>
    /\ NoRun /\ NoMember /\ NoExtras

\* The call of the function generated for the argument: the parser is
\* given the format string that g_arg_parser() wrote for it.
PassTo(arg) ==
    parse_transfer(
        parsed_flags(g_arg_parser(spec.target_abi, "None", <<arg>>, None,
                                  Some(Function)).format_s),
        ownership)

CallFirst ==
    /\ pc = "start"
    /\ ownership' = PassTo(args[1])
    /\ pc' = "first"
    /\ UNCHANGED <<spec, next_key, backend, run, out, prev_out, args, shape,
                   res, klass, overloads, emitted, nr_args, selected,
                   callable, body, extras>>

CallSecond ==
    /\ pc = "first"
    /\ ownership' = PassTo(args[2])
    /\ pc' = "done"
    /\ UNCHANGED <<spec, next_key, backend, run, out, prev_out, args, shape,
                   res, klass, overloads, emitted, nr_args, selected,
                   callable, body, extras>>

NextTransfer == CallFirst \/ CallSecond

SpecTransfer == InitTransfer /\ [][NextTransfer]_vars

(***************************************************************************)
(* SpecTree: the emission functions that edit the Specification, called    *)
(* one after the other on the signature of an overload and the members of  *)
(* its class.                                                              *)
(***************************************************************************)
ProtectedEnum ==
    [NoDefinition EXCEPT !.fq_cpp_name = Some("E"), !.is_protected = TRUE,
                         !.enum_base_type = Some("char")]

ProtectedClass ==
    [NoDefinition EXCEPT !.fq_cpp_name = Some("K"), !.is_protected = TRUE]

TreeArgSet ==
    {IntArg,
     [IntArg EXCEPT !.is_const = TRUE, !.is_reference = TRUE],
     [IntArg EXCEPT !.type = "STRING", !.derefs = <<FALSE, FALSE>>],
     [IntArg EXCEPT !.type = "ENUM", !.definition = ProtectedEnum],
     [IntArg EXCEPT !.type = "CLASS", !.is_const = TRUE,
                    !.is_reference = TRUE, !.definition = ProtectedClass],
     [IntArg EXCEPT !.type = "CLASS", !.derefs = <<TRUE>>,
                    !.definition.fq_cpp_name = Some("N")]}

TreeResults ==
    {VoidResult,
     [IntArg EXCEPT !.is_in = FALSE, !.is_const = TRUE],
     [IntArg EXCEPT !.is_in = FALSE, !.type = "CLASS", !.is_const = TRUE,
                    !.definition.fq_cpp_name = Some("N")],
     [IntArg EXCEPT !.is_in = FALSE, !.type = "ENUM",
                    !.definition = ProtectedEnum]}

Member(py_name) == [py_name |-> py_name, member_nr |-> -1]

Trees ==
    [result : TreeResults, args : SeqsUpTo(TreeArgSet, MaxArgs),
     py_slot : {"None", "ADD", "REPEAT"},
     members : {<<>>, <<Member("f"), Member("g")>>}]

InitTree ==
    /\ spec \in {EmptySpec(a) : a \in CurrentAbis}
    /\ backend = factory(spec)
    /\ pc = "start"
    /\ tree \in Trees
    /\ tree_before = tree /\ emission = "None"
    /\ NoRun /\ NoParse /\ NoMember /\ NoCall /\ NoExtensions /\ NoSourceFile
    /\ NoBuild /\ NoShadow
    /\ NoNames /\ NoModuleDef

\* What the actions of SpecTree leave alone.
generated ==
    <<spec, next_key, backend, run, out, prev_out, args, shape, res, klass,
      overloads, emitted, nr_args, selected, callable, body, ownership,
      extension_data, factory_calls, call, sf, build, sources,
      shadow_klass, shadow,
      names, module_state, sipWrappedModule>>

\* code.py lines 3801-3848 for a method of a class.  When the parser or the
\* call raises, the function does not return and the signature stays as it
\* was adjusted.
FunctionBody ==
    /\ pc = "start"
    /\ LET during == adjusted_args(tree.py_slot, tree.args)
           parsed == is_number_slot(tree.py_slot)
                         \/ (~is_int_arg_slot(tree.py_slot)
                                 /\ ~is_zero_arg_slot(tree.py_slot))
           raised ==
               \/ parsed /\ g_arg_parser(spec.target_abi, "class", during,
                                None, Some(SlotFunction(tree.py_slot))).raised
               \/ _function_call_raises(NoBindings,
                      [method_code |-> None, args |-> during,
                       throw_args |-> None])
           declared == IF parsed
                       THEN [i \in 1..Len(during) |->
                                _g_argument_variable(during[i])]
                       ELSE during
       IN  IF raised
           THEN /\ pc' = "error"
                /\ tree' = [tree EXCEPT !.args = during]
                /\ emission' = "None"
           ELSE /\ pc' = "start"
                /\ tree' = [tree EXCEPT
                               !.args = unadjusted_args(tree.py_slot,
                                                        tree.args, declared),
                               !.result = result_after_call(tree.result)]
                /\ emission' = "_function_body"
    /\ tree_before' = tree
    /\ UNCHANGED generated

\* backend.py lines 1801-1823, for the result of the overload.
NamedValueDecl ==
    /\ pc = "start"
    /\ tree' = [tree EXCEPT !.result = get_named_value_decl(tree.result)]
    /\ tree_before' = tree
    /\ emission' = "get_named_value_decl"
    /\ UNCHANGED <<generated, pc>>

\* code.py lines 3588-3612.
OverloadDecl ==
    /\ pc = "start"
    /\ tree' = [tree EXCEPT !.result = _overload_decl(tree).result,
                            !.args = _overload_decl(tree).args]
    /\ tree_before' = tree
    /\ emission' = "_overload_decl"
    /\ UNCHANGED <<generated, pc>>

\* code.py lines 2372-2473: the protected arguments are faked while the
\* handler is declared.  The NameError of lines 2399 and 2407 comes after
\* they are put back.
VirtualHandlerCall ==
    /\ pc = "start"
    /\ LET faked == _fake_protected_args(tree.args)
           nr_out == Cardinality({i \in 1..Len(tree.args) :
                                      tree.args[i].is_out})
       IN  /\ tree' = [tree EXCEPT
                          !.args = _restore_protected_args(
                                       faked.args, faked.protection_state)]
           /\ IF _virtual_handler_call_raises(
                     [result |-> tree.result, nr_out |-> nr_out])
              THEN pc' = "error" /\ emission' = "None"
              ELSE pc' = "start" /\ emission' = "_virtual_handler_call"
    /\ tree_before' = tree
    /\ UNCHANGED generated

\* backend.py lines 680-687 and 2494-2534.
ClassMethodTable ==
    /\ pc = "start"
    /\ tree' = [tree EXCEPT !.members = _g_py_method_table(tree.members)]
    /\ tree_before' = tree
    /\ emission' = "g_class_method_table"
    /\ UNCHANGED <<generated, pc>>

NextTree ==
    \/ FunctionBody
    \/ NamedValueDecl
    \/ OverloadDecl
    \/ VirtualHandlerCall
    \/ ClassMethodTable

SpecTree == InitTree /\ [][NextTree]_vars

(***************************************************************************)
(* SpecExtension: BuildSystemExtension.get_extension_data(), called by     *)
(* extensions of different names on the extendable objects.                *)
(***************************************************************************)
MaxCalls == 4

\* The dict of an extendable object with one more key.
SetItem(dict, name, value) ==
    [n \in DOMAIN dict \cup {name} |-> IF n = name THEN value ELSE dict[n]]

\* build_system_extension.py lines 43-65.  data is extendable.extension_data
\* (None or a dict), has_factory tells whether a factory is given and fresh is
\* the object a call of it returns.
get_extension_data_Recreate(data, name, has_factory, fresh) ==
    IF ~has_factory
    THEN [extension_data |-> data, called |-> FALSE,
          returned |-> IF data # None /\ name \in DOMAIN data[1]
                       THEN Some(data[1][name]) ELSE None]
    ELSE [extension_data |-> Some(SetItem(IF data = None THEN <<>> ELSE data[1],
                                          name, fresh)),
          called |-> TRUE, returned |-> Some(fresh)]

get_extension_data(data, name, has_factory, fresh) ==
    IF data = None /\ ~has_factory
    THEN [extension_data |-> None, called |-> FALSE, returned |-> None]
    ELSE IF data # None /\ name \in DOMAIN data[1]
    THEN [extension_data |-> data, called |-> FALSE,
          returned |-> Some(data[1][name])]
    ELSE IF data # None /\ ~has_factory
    THEN [extension_data |-> data, called |-> FALSE, returned |-> None]
    ELSE [extension_data |-> Some(SetItem(IF data = None THEN <<>> ELSE data[1],
                                          name, fresh)),
          called |-> TRUE, returned |-> Some(fresh)]

\* The number of objects the factories have made.
NrMade ==
    LET RECURSIVE Sum(_)
        Sum(S) == IF S = {} THEN 0
                  ELSE LET x == CHOOSE y \in S : TRUE
                       IN  factory_calls[x[1]][x[2]] + Sum(S \ {x})
    IN  Sum(Extendables \X ExtensionNames)

InitExtension ==
    /\ spec \in {EmptySpec(a) : a \in CurrentAbis}
    /\ backend = factory(spec)
    /\ pc = "start"
    /\ NoExtensions
    /\ NoRun /\ NoParse /\ NoMember /\ NoCall /\ NoTree /\ NoSourceFile
    /\ NoBuild /\ NoShadow
    /\ NoNames /\ NoModuleDef

\* An extension called name asks for its data of an extendable object.
GetExtensionData ==
    /\ call.nr < MaxCalls
    /\ \E e \in Extendables, name \in ExtensionNames, f \in BOOLEAN :
          LET got == get_extension_data(extension_data[e], name, f,
                                        NrMade + 1)
          IN  /\ extension_data' =
                     [extension_data EXCEPT ![e] = got.extension_data]
              /\ factory_calls' =
                     [factory_calls EXCEPT
                         ![e][name] = IF got.called THEN @ + 1 ELSE @]
              /\ call' = [extendable |-> e, name |-> name, factory |-> f,
                          returned |-> got.returned, nr |-> call.nr + 1]
    /\ UNCHANGED <<spec, next_key, backend, pc, run, out, prev_out, args, shape,
                   res, klass, overloads, emitted, nr_args, selected,
                   callable, body, ownership, tree, tree_before, emission,
                   sf, build, sources, shadow_klass, shadow,
      names, module_state, sipWrappedModule>>

NextExtension == GetExtensionData

SpecExtension == InitExtension /\ [][NextExtension]_vars

(***************************************************************************)
(* SpecWriter: a SourceFile that is opened and then written to.  What is   *)
(* written is a sequence of pieces: NL is a newline, a '#line' directive   *)
(* has its number, any other piece is text without a newline.              *)
(***************************************************************************)
MaxWrites == 2

Text(t) == [t |-> t, line |-> 0, own |-> FALSE]

NL == Text("\n")

Line(nr, own) == [t |-> "#line", line |-> nr, own |-> own]

\* str.count('\n').
RECURSIVE count(_)
count(s) ==
    IF s = <<>> THEN 0
    ELSE (IF Head(s) = NL THEN 1 ELSE 0) + count(Tail(s))

\* str.replace('_cast<::', '_cast< ::').
replace(s) ==
    [i \in 1..Len(s) |->
        IF s[i] = Text("_cast<::") THEN Text("_cast< ::") ELSE s[i]]

\* code.py lines 5257-5266.
write_Uncounted(file, s) ==
    [file EXCEPT !.f = @ \o replace(s)]

write(file, s) ==
    [file EXCEPT !.f = @ \o replace(s), !._line_nr = @ + count(s)]

\* code.py lines 5281-5284: the directive and the text of every code block.
RECURSIVE write_code_blocks(_, _)
write_code_blocks(file, code_blocks) ==
    IF code_blocks = <<>> THEN file
    ELSE write_code_blocks(
             write(write(file, <<Line(Head(code_blocks).line_nr, FALSE), NL>>),
                   Head(code_blocks).text),
             Tail(code_blocks))

\* code.py line 5286: the directive that names the line after it.
own_line_Current(file) ==
    write(file, <<Line(file._line_nr, TRUE), NL>>)

own_line(file) ==
    write(file, <<Line(file._line_nr + 1, TRUE), NL>>)

\* code.py lines 5268-5286.  code is None, a code block or a list of them.
write_code(file, code) ==
    IF code = None THEN file
    ELSE LET code_blocks == IF code.is_list THEN code.blocks ELSE <<code>>
         IN  IF code_blocks = <<>> THEN file
             ELSE own_line(write_code_blocks(file, code_blocks))

\* code.py lines 5294-5306: the comment at the start of the file.
_write_header_comments(file, version_info, copying) ==
    write(file, <<Text("/*"), NL, Text(" * description"), NL>>
                    \o (IF version_info
                        THEN <<Text(" *"), NL, Text(" * Generated by SIP"), NL>>
                        ELSE <<>>)
                    \o copying
                    \o <<Text(" */"), NL, NL>>)

\* code.py lines 5248-5255.
open(version_info, copying) ==
    _write_header_comments([f |-> <<>>, _line_nr |-> 1, nr_writes |-> 0],
                           version_info, copying)

\* What write() is given.
Texts ==
    {<<>>, <<Text("x")>>, <<NL>>, <<Text("x"), NL>>, <<NL, Text("x")>>,
     <<Text("static"), Text("_cast<::"), NL, Text("x"), NL>>}

CodeBlock(line_nr, text) ==
    [is_list |-> FALSE, line_nr |-> line_nr, text |-> text]

CodeBlocks ==
    {CodeBlock(7, <<Text("x")>>), CodeBlock(1, <<Text("x"), NL>>),
     CodeBlock(2, <<Text("_cast<::"), NL, NL, Text("x"), NL>>)}

\* What write_code() is given.
HandwrittenCodes ==
    {None} \cup CodeBlocks
        \cup {[is_list |-> TRUE, blocks |-> bs] : bs \in SeqsUpTo(CodeBlocks, 2)}

InitWriter ==
    /\ spec \in {EmptySpec(a) : a \in CurrentAbis}
    /\ backend = factory(spec)
    /\ pc = "start"
    /\ NoSourceFile
    /\ NoRun /\ NoParse /\ NoMember /\ NoCall /\ NoTree /\ NoExtensions
    /\ NoBuild /\ NoShadow
    /\ NoNames /\ NoModuleDef

\* What the actions of SpecWriter leave alone.
unwritten ==
    <<spec, next_key, backend, run, out, prev_out, args, shape, res, klass,
      overloads, emitted, nr_args, selected, callable, body, ownership, tree,
      tree_before, emission, extension_data, factory_calls, call, build,
      sources, shadow_klass, shadow,
      names, module_state, sipWrappedModule>>

\* SourceFile.__init__(): code.py lines 5222-5230.
Open ==
    /\ pc = "start"
    /\ \E version_info \in BOOLEAN,
          copying \in {<<>>, <<Text(" * copying"), NL>>,
                       <<Text(" * copying"), NL, Text(" * more"), NL>>} :
          sf' = open(version_info, copying)
    /\ pc' = "open"
    /\ UNCHANGED unwritten

Write ==
    /\ pc = "open" /\ sf.nr_writes < MaxWrites
    /\ \E s \in Texts : sf' = [write(sf, s) EXCEPT !.nr_writes = @ + 1]
    /\ UNCHANGED <<unwritten, pc>>

WriteCode ==
    /\ pc = "open" /\ sf.nr_writes < MaxWrites
    /\ \E code \in HandwrittenCodes :
          sf' = [write_code(sf, code) EXCEPT !.nr_writes = @ + 1]
    /\ UNCHANGED <<unwritten, pc>>

NextWriter == Open \/ Write \/ WriteCode

SpecWriter == InitWriter /\ [][NextWriter]_vars

(***************************************************************************)
(* SpecParts: the source files that _module_code() creates for a module    *)
(* whose code is, or is not, concatenated into parts.                      *)
(***************************************************************************)
MaxParts == 4

MaxIfaceFiles == 4

\* code.py line 810: the interface files that get code in this module.
generates(iface_file) == iface_file.in_module /\ ~iface_file.is_exception

\* code.py lines 257-261.
nr_files(iface_files) ==
    1 + Cardinality({i \in 1..Len(iface_files) : generates(iface_files[i])})

\* code.py line 263.
max_per_part(iface_files, parts) ==
    (nr_files(iface_files) + parts - 1) \div parts

PartFile(part_nr) == [name |-> "part", nr |-> part_nr]

\* code.py lines 1118-1138: the file an interface file creates for itself.
_iface_file_cpp(iface_file, i, use_sf) ==
    IF iface_file.is_empty \/ use_sf THEN <<>>
    ELSE <<[name |-> "iface", nr |-> i]>>

\* code.py lines 809-840 from interface file i on, with concatenation.
RECURSIVE iface_files_in_parts(_, _, _, _, _)
iface_files_in_parts(iface_files, i, parts, files_in_part, this_part) ==
    IF i > Len(iface_files) THEN <<>>
    ELSE IF ~generates(iface_files[i])
    THEN iface_files_in_parts(iface_files, i + 1, parts, files_in_part,
                              this_part)
    ELSE LET new_part == files_in_part = max_per_part(iface_files, parts)
             use_sf == iface_files[i].file_extension = None
         IN  (IF new_part THEN <<PartFile(this_part + 1)>> ELSE <<>>)
             \o _iface_file_cpp(iface_files[i], i, use_sf)
             \o iface_files_in_parts(
                    iface_files, i + 1, parts,
                    IF new_part THEN 1 ELSE files_in_part + 1,
                    IF new_part THEN this_part + 1 ELSE this_part)

\* code.py lines 809-840 without concatenation.
iface_files_alone(iface_files) ==
    Concat([i \in 1..Len(iface_files) |->
               IF generates(iface_files[i])
               THEN _iface_file_cpp(iface_files[i], i, FALSE) ELSE <<>>])

\* code.py lines 244-274 and 808-842: the source files in the order in
\* which they are created.
module_sources(parts, iface_files) ==
    IF parts # 0
    THEN <<PartFile(0)>> \o iface_files_in_parts(iface_files, 1, parts, 1, 0)
    ELSE <<[name |-> "cmodule", nr |-> 0]>> \o iface_files_alone(iface_files)

IfaceFiles ==
    {[in_module |-> TRUE, is_exception |-> FALSE, is_empty |-> FALSE,
      file_extension |-> None],
     [in_module |-> TRUE, is_exception |-> FALSE, is_empty |-> TRUE,
      file_extension |-> None],
     [in_module |-> TRUE, is_exception |-> FALSE, is_empty |-> FALSE,
      file_extension |-> Some(".mm")],
     [in_module |-> TRUE, is_exception |-> TRUE, is_empty |-> FALSE,
      file_extension |-> None],
     [in_module |-> FALSE, is_exception |-> FALSE, is_empty |-> FALSE,
      file_extension |-> None]}

InitParts ==
    /\ spec \in {EmptySpec(a) : a \in CurrentAbis}
    /\ backend = factory(spec)
    /\ pc = "start"
    /\ build \in [concatenate : 0..MaxParts,
                  iface_files : SeqsUpTo(IfaceFiles, MaxIfaceFiles)]
    /\ sources = <<>>
    /\ NoRun /\ NoParse /\ NoMember /\ NoCall /\ NoTree /\ NoExtensions
    /\ NoSourceFile /\ NoShadow
    /\ NoNames /\ NoModuleDef

\* code.py lines 244-850, for a module whose classes are written without
\* an exception.
ModuleSources ==
    /\ pc = "start"
    /\ sources' = module_sources(build.concatenate, build.iface_files)
    /\ pc' = "done"
    /\ UNCHANGED <<spec, next_key, backend, run, out, prev_out, args, shape,
                   res, klass, overloads, emitted, nr_args, selected,
                   callable, body, ownership, tree, tree_before, emission,
                   extension_data, factory_calls, call, sf, build,
                   shadow_klass, shadow,
      names, module_state, sipWrappedModule>>

NextParts == ModuleSources

SpecParts == InitParts /\ [][NextParts]_vars

(***************************************************************************)
(* SpecShadow: the shadow class of a class, its declaration and its code.  *)
(* The virtual overloads return nothing and pass nothing back, so that     *)
(* every catcher is written.                                               *)
(***************************************************************************)
MaxVirtuals == 3

MaxCtors == 2

\* utils.same_signature(): the C++ signatures have the same arguments.
same_signature(signature, other) == signature = other

\* code.py lines 5129-5146: the places in a_klass.ctors of the constructors
\* that are yielded, from place i on.
RECURSIVE _unique_class_ctors(_, _)
_unique_class_ctors(ctors, i) ==
    IF i > Len(ctors) THEN <<>>
    ELSE (IF /\ ctors[i].access_specifier # "PRIVATE"
             /\ ctors[i].cpp_signature # None
             /\ ~\E j \in 1..(i - 1) :
                    /\ ctors[j].cpp_signature # None
                    /\ same_signature(ctors[j].cpp_signature,
                                      ctors[i].cpp_signature)
          THEN <<i>> ELSE <<>>)
         \o _unique_class_ctors(ctors, i + 1)

\* code.py lines 5149-5168: the places in a_klass.virtual_overloads of the
\* virtual overloads that are yielded, from place i on.
RECURSIVE _unique_class_virtual_overloads(_, _)
_unique_class_virtual_overloads(virtual_overloads, i) ==
    IF i > Len(virtual_overloads) THEN <<>>
    ELSE (IF /\ virtual_overloads[i].access_specifier # "PRIVATE"
             /\ ~\E j \in 1..(i - 1) :
                    /\ virtual_overloads[j].cpp_name
                           = virtual_overloads[i].cpp_name
                    /\ same_signature(virtual_overloads[j].cpp_signature,
                                      virtual_overloads[i].cpp_signature)
          THEN <<i>> ELSE <<>>)
         \o _unique_class_virtual_overloads(virtual_overloads, i + 1)

\* code.py lines 3650-3653.
_count_virtual_overloads_Public(virtual_overloads) ==
    Cardinality({i \in 1..Len(virtual_overloads) :
                    virtual_overloads[i].access_specifier = "PUBLIC"})

_count_virtual_overloads(virtual_overloads) ==
    Len(_unique_class_virtual_overloads(virtual_overloads, 1))

\* code.py lines 3481-3586: the constructors and the catchers that are
\* declared, and the length of sipPyMethods[] (-1 when it is not declared).
_shadow_class_declaration(a_klass) ==
    [ctor_decls |-> _unique_class_ctors(a_klass.ctors, 1),
     catcher_decls |->
         _unique_class_virtual_overloads(a_klass.virtual_overloads, 1),
     sipPyMethods |->
         IF _count_virtual_overloads(a_klass.virtual_overloads) > 0
         THEN _count_virtual_overloads(a_klass.virtual_overloads) ELSE -1]

\* code.py lines 2134-2225: the constructors, each with or without the
\* memset() of sipPyMethods, and the catchers, each with the index that
\* it gives to sipIsPyMethod() (code.py line 2313).
_shadow_code(a_klass) ==
    LET nr_virtuals == _count_virtual_overloads(a_klass.virtual_overloads)
        unique_ctors == _unique_class_ctors(a_klass.ctors, 1)
        unique == _unique_class_virtual_overloads(a_klass.virtual_overloads, 1)
    IN  [ctors |-> [c \in 1..Len(unique_ctors) |->
                       [ctor |-> unique_ctors[c], memset |-> nr_virtuals > 0]],
         catchers |-> [v \in 1..Len(unique) |->
                          [virtual_overload |-> unique[v],
                           virt_nr |-> v - 1]]]

VirtualOverloads ==
    {[cpp_name |-> "f", cpp_signature |-> <<>>, access_specifier |-> a] :
        a \in {"PUBLIC", "PROTECTED", "PRIVATE"}}
    \cup {[cpp_name |-> "f", cpp_signature |-> <<"int">>,
           access_specifier |-> "PUBLIC"],
          [cpp_name |-> "g", cpp_signature |-> <<>>,
           access_specifier |-> "PUBLIC"]}

Ctors ==
    {[cpp_signature |-> None, access_specifier |-> "PUBLIC"],
     [cpp_signature |-> Some(<<>>), access_specifier |-> "PUBLIC"],
     [cpp_signature |-> Some(<<>>), access_specifier |-> "PRIVATE"],
     [cpp_signature |-> Some(<<"int">>), access_specifier |-> "PUBLIC"]}

InitShadow ==
    /\ spec \in {EmptySpec(a) : a \in CurrentAbis}
    /\ backend = factory(spec)
    /\ pc = "start"
    /\ shadow_klass \in
           [ctors : SeqsUpTo(Ctors, MaxCtors),
            virtual_overloads : SeqsUpTo(VirtualOverloads, MaxVirtuals)]
    /\ shadow = [declared |-> FALSE, ctor_decls |-> <<>>,
                 catcher_decls |-> <<>>, sipPyMethods |-> -1,
                 defined |-> FALSE, ctors |-> <<>>, catchers |-> <<>>]
    /\ NoRun /\ NoParse /\ NoMember /\ NoCall /\ NoTree /\ NoExtensions
    /\ NoSourceFile /\ NoBuild /\ NoNames /\ NoModuleDef

\* What the actions of SpecShadow leave alone.
unshadowed ==
    <<spec, next_key, backend, pc, run, out, prev_out, args, shape, res,
      klass, overloads, emitted, nr_args, selected, callable, body,
      ownership, tree, tree_before, emission, extension_data, factory_calls,
      call, sf, build, sources, shadow_klass, names, module_state,
      sipWrappedModule>>

\* code.py lines 3481-3586.
ShadowClassDeclaration ==
    /\ ~shadow.declared
    /\ LET decl == _shadow_class_declaration(shadow_klass)
       IN  shadow' = [shadow EXCEPT !.declared = TRUE,
                                    !.ctor_decls = decl.ctor_decls,
                                    !.catcher_decls = decl.catcher_decls,
                                    !.sipPyMethods = decl.sipPyMethods]
    /\ UNCHANGED unshadowed

\* code.py lines 2134-2225.
ShadowCode ==
    /\ ~shadow.defined
    /\ shadow' = [shadow EXCEPT !.defined = TRUE,
                                !.ctors = _shadow_code(shadow_klass).ctors,
                                !.catchers = _shadow_code(shadow_klass).catchers]
    /\ UNCHANGED unshadowed

NextShadow == ShadowClassDeclaration \/ ShadowCode

SpecShadow == InitShadow /\ [][NextShadow]_vars

(***************************************************************************)
(* SpecNames: the name cache is laid out and the string pool is written.   *)
(* A name is the sequence of its characters.                               *)
(***************************************************************************)
MaxNameLen == 3

MaxNames == 3

\* The terminator of a name in the pool.
NUL == "NUL"

\* str.__lt__
RECURSIVE less(_, _)
less(a, b) ==
    IF a = <<>> THEN b # <<>>
    ELSE IF b = <<>> THEN FALSE
    ELSE \/ ord(Head(a)) < ord(Head(b))
         \/ Head(a) = Head(b) /\ less(Tail(a), Tail(b))

\* str.endswith()
endswith(a, b) ==
    Len(b) <= Len(a) /\ SubSeq(a, Len(a) - Len(b) + 1, Len(a)) = b

\* code.py lines 858-861: by descending length of the name and then in
\* alphabetical order.
precedes(c, d) ==
    \/ Len(c.name) > Len(d.name)
    \/ Len(c.name) = Len(d.name) /\ less(c.name, d.name)

RECURSIVE sorted_names(_)
sorted_names(cache) ==
    IF cache = {} THEN <<>>
    ELSE LET first == CHOOSE c \in cache :
                          \A d \in cache \ {c} : precedes(c, d)
         IN  <<first>> \o sorted_names(cache \ {first})

\* code.py line 889.
next_offset_Unterminated(offset, name_len) == offset + name_len

next_offset(offset, name_len) == offset + name_len + 1

\* code.py lines 863-889: the loop over the names from the i-th one on,
\* with the offset of the next name that is stored in full.
RECURSIVE set_offsets(_, _, _)
set_offsets(name_cache_list, i, offset) ==
    IF i > Len(name_cache_list) THEN name_cache_list
    ELSE IF ~name_cache_list[i].used
    THEN set_offsets(name_cache_list, i + 1, offset)
    ELSE LET name_len == Len(name_cache_list[i].name)
             tails == {j \in 1..Len(name_cache_list) :
                          /\ \A k \in 1..j :
                                 Len(name_cache_list[k].name) > name_len
                          /\ name_cache_list[j].used
                          /\ ~name_cache_list[j].is_substring
                          /\ endswith(name_cache_list[j].name,
                                      name_cache_list[i].name)}
         IN  IF tails # {}
             THEN LET prev == CHOOSE j \in tails : \A k \in tails : j <= k
                  IN  set_offsets(
                          [name_cache_list EXCEPT
                              ![i].is_substring = TRUE,
                              ![i].offset =
                                  name_cache_list[prev].offset
                                    + Len(name_cache_list[prev].name)
                                    - name_len],
                          i + 1, offset)
             ELSE IF ~name_cache_list[i].is_substring
             THEN set_offsets(
                      [name_cache_list EXCEPT ![i].offset = offset],
                      i + 1, next_offset(offset, name_len))
             ELSE set_offsets(name_cache_list, i + 1, offset)

\* code.py lines 852-891.
_name_cache_as_list(cache) ==
    set_offsets(sorted_names(cache), 1, 0)

\* code.py lines 894-924: the characters of sipStrings_<module>[].
RECURSIVE _name_cache(_)
_name_cache(name_cache_list) ==
    IF name_cache_list = <<>> THEN <<>>
    ELSE (IF ~Head(name_cache_list).used \/ Head(name_cache_list).is_substring
          THEN <<>>
          ELSE Head(name_cache_list).name \o <<NUL>>)
         \o _name_cache(Tail(name_cache_list))

\* A name as the parser caches it.
CachedName(name, used) ==
    [name |-> name, used |-> used, is_substring |-> FALSE, offset |-> 0]

CachedNames ==
    {CachedName(n, u) :
        n \in SeqsUpTo({"a", "b"}, MaxNameLen) \ {<<>>}, u \in BOOLEAN}

\* The name caches: no name is cached twice.
NameCaches ==
    {{s[i] : i \in 1..Len(s)} : s \in
        {t \in SeqsUpTo(CachedNames, MaxNames) :
            \A i, j \in 1..Len(t) : i # j => t[i].name # t[j].name}}

InitNames ==
    /\ spec \in {EmptySpec(a) : a \in CurrentAbis}
    /\ backend = factory(spec)
    /\ pc = "start"
    /\ names \in [name_cache : NameCaches, name_cache_list : {<<>>},
                  laid_out : {FALSE}, sipStrings : {<<>>}, written : {FALSE}]
    /\ NoRun /\ NoParse /\ NoMember /\ NoCall /\ NoTree /\ NoExtensions
    /\ NoSourceFile /\ NoBuild /\ NoShadow /\ NoModuleDef

\* What the actions of SpecNames leave alone.
unnamed ==
    <<spec, next_key, backend, pc, run, out, prev_out, args, shape, res,
      klass, overloads, emitted, nr_args, selected, callable, body,
      ownership, tree, tree_before, emission, extension_data, factory_calls,
      call, sf, build, sources, shadow_klass, shadow, module_state,
      sipWrappedModule>>

\* code.py line 300.
NameCacheAsList ==
    /\ ~names.laid_out
    /\ names' = [names EXCEPT
                    !.name_cache_list = _name_cache_as_list(names.name_cache),
                    !.laid_out = TRUE]
    /\ UNCHANGED unnamed

\* code.py line 303.
NameCache ==
    /\ names.laid_out /\ ~names.written
    /\ names' = [names EXCEPT
                    !.sipStrings = _name_cache(names.name_cache_list),
                    !.written = TRUE]
    /\ UNCHANGED unnamed

NextNames == NameCacheAsList \/ NameCache

SpecNames == InitNames /\ [][NextNames]_vars

(***************************************************************************)
(* SpecModuleDef: the definition of the wrapped module is written, as the  *)
(* sequence of the designators of its initialiser.                         *)
(***************************************************************************)
\* backend.py lines 709-766.
g_create_wrapped_module(m) ==
    <<".abi_major", ".abi_minor", ".sip_configuration">>
    \o Optionally(m.nr_imports # 0, <<".imports">>)
    \o Optionally(m.nr_needed_types # 0, <<".nr_type_defs", ".type_defs">>)
    \o Optionally(m.has_external, <<".imports">>)
    \o Optionally(m.custom_enums /\ m.nr_enum_members # 0,
                  <<".nr_enum_members", ".enum_members">>)
    \o Optionally(m.nr_typedefs # 0, <<".nr_typedefs", ".typedefs">>)
    \o Optionally(m.has_virtual_error_handlers, <<".virterrorhandlers">>)
    \o Optionally(m.nr_subclass_convertors # 0, <<".convertors">>)
    \o Optionally(m.nr_static_variables # 0,
                  <<".attributes.nr_static_variables",
                    ".attributes.static_variables">>)
    \o Optionally(m.nr_types # 0,
                  <<".attributes.nr_types", ".attributes.type_nrs">>)
    \o Optionally(m.license, <<".license">>)
    \o Optionally(m.slot_extenders, <<".slotextend">>)
    \o Optionally(m.init_extenders, <<".initextend">>)
    \o Optionally(m.has_delayed_dtors, <<".delayeddtors">>)
    \o Optionally(m.exceptions /\ m.nr_exceptions # 0,
                  <<".exception_handler">>)

\* The tables a module has or has not: nr_enum_members is -1 when custom
\* enums are not supported (code.py lines 537-540).
ModuleStates ==
    {m \in [nr_imports : 0..1, nr_needed_types : 0..1,
            has_external : BOOLEAN, custom_enums : BOOLEAN,
            nr_enum_members : -1..1, nr_typedefs : 0..1,
            has_virtual_error_handlers : BOOLEAN,
            nr_subclass_convertors : 0..1,
            nr_static_variables : 0..1, nr_types : 0..1,
            license : BOOLEAN, slot_extenders : BOOLEAN,
            init_extenders : BOOLEAN, has_delayed_dtors : BOOLEAN,
            exceptions : BOOLEAN, nr_exceptions : 0..1] :
        /\ m.custom_enums <=> m.nr_enum_members >= 0
        /\ m.slot_extenders = m.init_extenders
        /\ m.license = m.has_delayed_dtors
        /\ m.nr_static_variables = 0 => m.nr_types = 0
        /\ m.exceptions \/ m.nr_exceptions = 0}

InitModuleDef ==
    /\ spec \in {EmptySpec(a) : a \in CurrentAbis}
    /\ backend = factory(spec)
    /\ pc = "start"
    /\ module_state \in ModuleStates
    /\ sipWrappedModule = <<>>
    /\ NoRun /\ NoParse /\ NoMember /\ NoCall /\ NoTree /\ NoExtensions
    /\ NoSourceFile /\ NoBuild /\ NoShadow /\ NoNames

\* backend.py lines 689-782.
CreateWrappedModule ==
    /\ sipWrappedModule = <<>>
    /\ sipWrappedModule' = g_create_wrapped_module(module_state)
    /\ UNCHANGED <<spec, next_key, backend, pc, run, out, prev_out, args,
                   shape, res, klass, overloads, emitted, nr_args, selected,
                   callable, body, ownership, tree, tree_before, emission,
                   extension_data, factory_calls, call, sf, build, sources,
                   shadow_klass, shadow, names, module_state>>

NextModuleDef == CreateWrappedModule

SpecModuleDef == InitModuleDef /\ [][NextModuleDef]_vars

(***************************************************************************)
(* The properties.                                                         *)
(***************************************************************************)
\* C1: Backend.factory(spec) gives the current-ABI Backend if and only if
\* spec.target_abi >= (14, 0) and a LegacyBackend otherwise, whatever the
\* other attributes of spec are.
C1_FactoryByTargetAbi ==
    backend # "None" =>
        backend = IF AbiGE(spec.target_abi, <<14, 0>>) THEN "Backend"
                  ELSE "LegacyBackend"

\* What only the legacy ABIs have: the string pool of the cached names and
\* the references into it.
LegacyOnly == {"sipStrings_", "sipNameNr_"}

\* What only the current ABI has: the type IDs of the wrapped variables.
CurrentOnly ==
    {"sipTypeID_int", "sipTypeID_char", "sipTypeID_str", "sipTypeID_wchar",
     "sipTypeID_wstr", "sipTypeID_voidptr", "sipTypeID_voidptr_const"}

\* C2: in the output of a run for a current-ABI target there is no
\* legacy-only structure, and in the output of a run for a legacy target
\* there is no current-ABI-only structure.
C2_NoMixedStructures ==
    pc = "done" =>
        \A i \in 1..Len(out) :
            IF backend = "Backend" THEN out[i].tok \notin LegacyOnly
            ELSE out[i].tok \notin CurrentOnly

\* The overloads (or constructors) the generated function handles, and the
\* calls each of them takes.
Handled(i) ==
    IF klass.kind = "ctor" THEN overloads[i].access_specifier # "PRIVATE"
    ELSE /\ overloads[i].common_is_member
         /\ ~overloads[i].is_signal
         /\ overloads[i].access_specifier # "PRIVATE"

Takes(i, n) ==
    \/ klass.no_arg_parser
    \/ /\ ~(klass.kind = "member"
               /\ overloads[i].access_specifier = "PROTECTED"
               /\ ~klass.has_shadow)
       /\ Cardinality({j \in 1..Len(overloads[i].args) :
                          overloads[i].args[j].default_value = None}) <= n
       /\ n <= Len(overloads[i].args)

Matching(n) == {i \in 1..Len(overloads) : Handled(i) /\ Takes(i, n)}

\* C3: a call of a generated function reaches the first declared of the
\* overloads that take it (and none when no overload takes it).
C3_FirstDeclaredWins ==
    pc = "called" /\ emitted # <<>> =>
        /\ \A b \in 1..(Len(emitted) - 1) : emitted[b].decl < emitted[b + 1].decl
        /\ selected = IF Matching(nr_args) = {} THEN 0
                      ELSE CHOOSE i \in Matching(nr_args) :
                               \A j \in Matching(nr_args) : i <= j

\* f(int) and f(int, int=0), declared in that order, called with one
\* argument: the first is called.
C3_Witness ==
    /\ pc = "called" /\ klass.kind = "member" /\ ~klass.no_arg_parser
    /\ Len(overloads) >= 2
    /\ overloads[1] = Overload(1, 0) /\ overloads[2] = Overload(1, 1)
    /\ nr_args = 1
    /\ Cardinality(Matching(1)) >= 2
    /\ selected = 1

\* C4: the output of the second run on the same Specification is the
\* output of the first run, kept-reference keys included.
C4_SecondRunIdentical ==
    run = 2 /\ pc = "done" => out = prev_out

\* How a callable is bound, which g_arg_parser() is told by its scope, ctor
\* and overload arguments.
SelfKind(sh) ==
    IF sh.ctor # None THEN "ctor"
    ELSE IF sh.overload # None /\ sh.scope \in {"class", "mapped_type"}
              /\ sh.overload[1].common.py_slot = "None"
    THEN (IF sh.overload[1].is_static THEN "static method"
          ELSE IF sh.overload[1].access_is_really_protected
          THEN "protected method"
          ELSE "method")
    ELSE "unbound"

\* C5 as stated: any callable with this signature gets this format string
\* under this ABI.
C5_FormatBySignatureAlone ==
    pc = "done" =>
        \A sh \in Shapes :
            format_s(spec.target_abi, sh.scope, args, sh.ctor, sh.overload)
                = res.format_s

\* C5 as amended: any callable with this signature that is bound in the
\* same way gets this format string under this ABI.
C5_FormatBySignatureAndBinding ==
    pc = "done" =>
        \A sh \in Shapes :
            SelfKind(sh) = SelfKind(shape) =>
                format_s(spec.target_abi, sh.scope, args, sh.ctor,
                         sh.overload) = res.format_s

C5_Witness ==
    /\ pc = "done" /\ args # <<>>
    /\ SelfKind(shape) = "unbound" /\ shape.scope = "namespace"
    /\ \E sh \in Shapes : sh # shape /\ SelfKind(sh) = SelfKind(shape)
    /\ \E sh \in Shapes :
          format_s(spec.target_abi, sh.scope, args, sh.ctor, sh.overload)
              # res.format_s

\* C6: the arguments that follow the format string are, in order, what the
\* codes of the format string take.
C6_SlotsMatchFormat ==
    pc = "done" =>
        slot_kinds(res.slots) = format_takes(res.format_s, 1)

\* The format characters of the input arguments lo..hi, without boundary.
RECURSIVE Codes(_, _, _)
Codes(in_args, lo, hi) ==
    IF lo > hi THEN <<>>
    ELSE wrapper_format(in_args[lo]) \o type_format(in_args[lo])
             \o Codes(in_args, lo + 1, hi)

Optional(in_args) == {i \in 1..Len(in_args) : in_args[i].default_value # None}

\* C7: '|' is in the format string once if an input argument has a default
\* value and not at all otherwise, and it stands right before the codes of
\* the first input argument that has one.
C7_OptionalBoundary ==
    pc = "done" =>
        LET in_args == InArgs(args)
            self    == self_format(spec.target_abi, shape.scope, args,
                                   shape.ctor, shape.overload)
            first   == CHOOSE i \in Optional(in_args) :
                           \A j \in Optional(in_args) : i <= j
        IN  /\ Cardinality({i \in 1..Len(res.format_s) :
                               res.format_s[i] = "|"})
                   = IF Optional(in_args) = {} THEN 0 ELSE 1
            /\ Optional(in_args) # {} =>
                   res.format_s
                       = <<Quote>> \o self
                             \o Codes(in_args, 1, first - 1)
                             \o <<"|">>
                             \o Codes(in_args, first, Len(in_args))
                             \o <<Quote>>

C7_Witness ==
    /\ pc = "done"
    /\ Len(InArgs(args)) = 2
    /\ InArgs(args)[1].default_value = None
    /\ InArgs(args)[2].default_value # None
    /\ Codes(InArgs(args), 1, 1) # <<>>
    /\ Codes(InArgs(args), 2, 2) # <<>>

\* The primitive the priorities give.
ExpectedParser(sh) ==
    IF sh.overload # None /\ is_number_slot(sh.overload[1].common.py_slot)
    THEN "sipParsePair"
    ELSE IF sh.overload # None /\ sh.overload[1].common.py_slot = "SETATTR"
    THEN (IF sh.overload[1].is_delattr
          THEN "sipValue == SIP_NULLPTR && sipParsePair"
          ELSE "sipValue != SIP_NULLPTR && sipParsePair")
    ELSE IF (sh.overload # None /\ sh.overload[1].common.allow_keyword_args)
               \/ sh.ctor # None
    THEN "sipParseKwdArgs"
    ELSE "sipParseArgs"

InSeq(x, s) == \E i \in 1..Len(s) : s[i] = x

\* C8: the parser is the pair parser for a number slot, else the
\* conditional pair parser for __setattr__/__delattr__, else the keyword
\* parser for a member that allows keyword arguments or a constructor, else
\* the positional parser, which is given no keywords.
C8_OneParserByPriority ==
    pc = "done" =>
        /\ res.parser_function = ExpectedParser(shape)
        /\ InSeq("sipKwds", res.head)
               <=> res.parser_function = "sipParseKwdArgs"

C8_Witness ==
    /\ pc = "done" /\ shape.ctor # None
    /\ res.parser_function = "sipParseKwdArgs"
    /\ InSeq("sipKwds", res.head)

\* The kw_args of the callable.
KwArgsOf(sh) ==
    IF sh.overload # None THEN sh.overload[1].kw_args ELSE sh.ctor[1].kw_args

\* The argument of the keyword parser that names the table.
TableArg == res.head[Len(res.head) - 1]

\* C9 as stated: with the keyword parser there is a table of keyword names
\* and it is passed to the parser.
C9_TableAlways ==
    pc = "done" /\ res.parser_function = "sipParseKwdArgs" =>
        res.kwd_list # None /\ TableArg = "sipKwdList"

\* C9 as amended: with the keyword parser there is a table, of one entry
\* per input argument, and it is passed, exactly when kw_args is not NONE
\* and there is an input argument; otherwise SIP_NULLPTR is passed.
C9_TableWhenKeywordsUsed ==
    pc = "done" /\ res.parser_function = "sipParseKwdArgs" =>
        IF KwArgsOf(shape) # "NONE" /\ \E i \in 1..Len(args) : args[i].is_in
        THEN /\ res.kwd_list # None
             /\ Len(res.kwd_list[1])
                    = Cardinality({i \in 1..Len(args) : args[i].is_in})
             /\ TableArg = "sipKwdList"
        ELSE res.kwd_list = None /\ TableArg = "SIP_NULLPTR"

C9_Witness ==
    /\ pc = "done" /\ res.parser_function = "sipParseKwdArgs"
    /\ KwArgsOf(shape) = "NONE"
    /\ \E i \in 1..Len(args) : args[i].is_in
    /\ res.kwd_list = None

\* A constructor that takes keywords and whose only argument is the
\* optional, named argument incr.
IncrCtor ==
    /\ shape.ctor # None /\ shape.ctor[1].kw_args # "NONE"
    /\ args = <<[IntArg EXCEPT !.name = Some("incr"),
                               !.default_value = Some("1")]>>

\* C10 as stated: the table of that constructor is "incr" and then NULL.
C10_IncrThenNull ==
    pc = "done" /\ IncrCtor =>
        res.kwd_list = Some(<<[ref |-> "literal", name |-> "incr"],
                              [ref |-> "SIP_NULLPTR", name |-> ""]>>)

\* C10 as amended: the table of that constructor is the one entry "incr".
C10_IncrOnly ==
    pc = "done" /\ IncrCtor =>
        res.kwd_list = Some(<<[ref |-> "literal", name |-> "incr"]>>)

C10_Witness ==
    /\ pc = "done" /\ IncrCtor /\ shape.ctor[1].kw_args = "OPTIONAL"
    /\ res.kwd_list # None /\ Len(res.kwd_list[1]) = 1

\* The entry of the keyword name table for an input argument.
ExpectedEntry(arg, kw_args) ==
    IF arg.name # None
           /\ (kw_args = "ALL"
               \/ (kw_args = "OPTIONAL" /\ arg.default_value # None))
    THEN [ref |-> "literal", name |-> arg.name[1]]
    ELSE [ref |-> "SIP_NULLPTR", name |-> ""]

\* C11: a keyword name table that is written has one entry per input
\* argument, in the order of the signature: the name of the argument when
\* it may be passed by keyword (named, and kw_args is ALL or the argument
\* has a default value) and null otherwise; an argument that is only an
\* output has no entry.
C11_TableEntries ==
    pc # "start" /\ res.kwd_list # None =>
        LET table == res.kwd_list[1]
            ins   == SelectSeq(args, LAMBDA a : a.is_in)
        IN  /\ Len(table) = Len(ins)
            /\ \A i \in 1..Len(ins) :
                   table[i] = ExpectedEntry(ins[i], KwArgsOf(shape))

C11_Witness ==
    /\ pc = "done" /\ res.kwd_list # None
    /\ KwArgsOf(shape) = "OPTIONAL"
    /\ Len(args) = 2
    /\ ~args[1].is_in
    /\ args[2].name # None /\ args[2].default_value # None
    /\ res.kwd_list[1] = <<[ref |-> "literal", name |-> args[2].name[1]]>>

\* The signature is one argument that gets a sub-format character: a class
\* or a mapped type that is not an array, or a Python object.
OneClassArg ==
    /\ Len(args) = 1 /\ args[1].is_in
    /\ args[1].type \in {"CLASS", "MAPPED"} /\ args[1].array # "ARRAY"

OneSubformatArg ==
    OneClassArg \/ (Len(args) = 1 /\ args[1].is_in /\ args[1].type = "PYOBJECT")

\* The flags of the sub-format character that was written: the character
\* after the first 'J' or 'P' of the format string.
WrittenFlags ==
    LET f == res.format_s
        i == CHOOSE i \in 1..Len(f) :
                 /\ f[i] \in {"J", "P"}
                 /\ \A j \in 1..(i - 1) : f[j] \notin {"J", "P"}
    IN  flags_of(f[i + 1])

C13_FourBits ==
    pc = "done" /\ OneSubformatArg => WrittenFlags >= 0 /\ WrittenFlags <= 15

\* C13 as amended: the flags of a sub-format character are at most 25, and
\* above 15 exactly for a class or mapped-type argument with TRANSFER_THIS.
C13_FiveBits ==
    pc = "done" /\ OneSubformatArg =>
        /\ WrittenFlags >= 0 /\ WrittenFlags <= 25
        /\ WrittenFlags > 15
               <=> (args[1].type \in {"CLASS", "MAPPED"}
                    /\ args[1].transfer = "TRANSFER_THIS")

C13_Witness ==
    /\ pc = "done" /\ OneClassArg
    /\ args[1].transfer = "TRANSFER_THIS"
    /\ WrittenFlags = 25

Positions(s) == {i \in 1..Len(body) : body[i].s = s /\ ~body[i].in_catch}

\* The statement that is the native call.
NativeCall == IF callable.kind = "ctor" THEN "sipCpp = new" ELSE "call"

\* C15: the native call is wrapped in a try block with its catch clause
\* exactly when exception translation is enabled and the throw specification
\* is absent or non-empty; otherwise neither is written.
C15_TryCatchWhenHandling ==
    pc = "done" =>
        LET throw    == callable.throw_args
            handling == /\ callable.bindings.exceptions
                        /\ throw = None \/ throw[1].arguments # None
        IN  IF handling /\ Positions(NativeCall) # {}
            THEN \A i \in Positions(NativeCall) :
                     /\ body[i - 1].s = "try {"
                     /\ body[i + 1].s = "}"
                     /\ body[i + 2].s = "catch (...) {"
                     /\ Cardinality(Positions("try {")) = 1
                     /\ Cardinality(Positions("catch (...) {")) = 1
            ELSE Positions("try {") = {} /\ Positions("catch (...) {") = {}

C15_Witness ==
    /\ pc = "done" /\ callable.kind = "function"
    /\ callable.bindings.exceptions
    /\ callable.throw_args = Some([arguments |-> Some(<<"E">>)])
    /\ Positions("try {") # {} /\ Positions("catch (...) {") # {}

\* The names of the values a sipBuildResult() call converts.
RECURSIVE Converted(_)
Converted(values) ==
    IF values = <<>> THEN <<>>
    ELSE (IF Head(values).name \in {"sipRes", "sipResObj", "a"}
          THEN <<Head(values)>> ELSE <<>>) \o Converted(Tail(values))

\* The values a function gives back: its result and then the arguments
\* passed back, in the order of the signature.
RECURSIVE OutArgs(_, _)
OutArgs(args_, i) ==
    IF i > Len(args_) THEN <<>>
    ELSE (IF args_[i].is_out THEN <<i - 1>> ELSE <<>>) \o OutArgs(args_, i + 1)

ReturnValues ==
    (IF callable.result.type = "VOID" /\ callable.result.derefs = <<>>
     THEN <<>> ELSE <<-1>>) \o OutArgs(callable.args, 1)

\* C16: a function that gives back more than one value returns one tuple
\* built by sipBuildResult(), whose format has one code for each value and
\* whose values are the result and then the arguments passed back, in the
\* order of the signature.
C16_OneCodePerValue ==
    pc = "done" /\ callable.kind = "function" /\ Len(ReturnValues) > 1 =>
        /\ Cardinality(Positions("sipBuildResult")) = 1
        /\ \A i \in Positions("sipBuildResult") :
               /\ Len(body[i].format) = Len(ReturnValues)
               /\ [j \in 1..Len(Converted(body[i].values)) |->
                       Converted(body[i].values)[j].nr] = ReturnValues

\* The statements of the body that release a temporary.
Releases == Positions("delete[]") \cup Positions("sipFree")

\* A /Transfer/ constructor whose call is generated.
GeneratedTransfer ==
    /\ pc = "done" /\ callable.kind = "ctor"
    /\ callable.transfer = "TRANSFER"
    /\ callable.method_code = None /\ ~callable.c_bindings

RoundTrip ==
    args[1].transfer = "TRANSFER" /\ args[2].transfer = "TRANSFER_BACK"

NeedsDefaultInstance ==
    /\ callable.result.type = "CLASS" /\ callable.result.derefs = <<>>
    /\ callable.result.definition.instance_code = None
    /\ \/ /\ callable.kind = "catcher"
          /\ callable.is_abstract /\ callable.virtual_call_code = None
       \/ /\ callable.kind = "handler"
          /\ callable.result.is_reference
          /\ callable.virtual_catcher_code = None
          /\ ~callable.abort_on_exception

NoUsableDefaultCtor ==
    LET ctor == callable.result.definition.default_ctor
    IN  \/ ctor = None
        \/ ctor[1].access_specifier # "PUBLIC"
        \/ ctor[1].cpp_signature = None

DefaultReturns ==
    Positions("return T();") \cup Positions("return 0;")
        \cup Positions("return *sipCpp;")

C20_AbortWheneverPolicy ==
    pc = "done" /\ callable.kind = "handler"
            /\ callable.virtual_catcher_code = None =>
        /\ Positions("abort();") # {} => callable.abort_on_exception
        /\ callable.abort_on_exception =>
               \E i \in Positions("abort();") : body[i - 1].s = "if (sipRc < 0)"

\* The keys allocated in a piece of output, in the order of allocation.
RECURSIVE KeysOf(_)
KeysOf(written) ==
    IF written = <<>> THEN <<>>
    ELSE (IF Head(written).key = "key" THEN <<Head(written).nr>> ELSE <<>>)
             \o KeysOf(Tail(written))

\* Every key taken from the counter of the module so far.
AllocatedKeys == KeysOf(prev_out) \o KeysOf(out)

\* C21: the counter next_key of a module only ever decreases, and no two
\* allocations taken from it yield the same key.
C21_KeysDecreaseAndDiffer ==
    /\ [][next_key' <= next_key]_vars
    /\ [](\A i, j \in 1..Len(AllocatedKeys) :
              i # j => AllocatedKeys[i] # AllocatedKeys[j])

C21_Witness ==
    /\ run = 2 /\ pc = "done"
    /\ Len(KeysOf(prev_out)) = 2 /\ Len(KeysOf(out)) = 2
    /\ next_key < -4

\* C22 as stated: when an emission function has returned, every attribute
\* of the Specification has the value it had when the function was called.
C22_TreeRestored ==
    emission # "None" => tree = tree_before

\* C22 as amended: when an emission function has returned, the result and
\* the arguments of the signature have the values they had when it was
\* called; the method table leaves in member_nr the place of each member.
C22_SignatureRestored ==
    emission # "None" =>
        /\ tree.result = tree_before.result
        /\ tree.args = tree_before.args
        /\ tree.py_slot = tree_before.py_slot
        /\ Len(tree.members) = Len(tree_before.members)
        /\ \A i \in 1..Len(tree.members) :
               /\ tree.members[i].py_name = tree_before.members[i].py_name
               /\ tree.members[i].member_nr
                      = IF emission = "g_class_method_table" THEN i - 1
                        ELSE tree_before.members[i].member_nr

C22_Witness ==
    /\ emission = "_function_body"
    /\ tree.py_slot = "ADD" /\ Len(tree_before.args) = 1
    /\ arg_is_small_enum(tree.args[1])
    /\ tree.members # <<>> /\ tree.members[1].member_nr = 0

\* The data an extension name has on an extendable object, None if none.
DataOf(data, e, name) ==
    IF data[e] # None /\ name \in DOMAIN data[e][1]
    THEN Some(data[e][1][name]) ELSE None

\* C23: the data of an extendable object and an extension name is made at
\* most once, by the first call for the pair that gives a factory; every
\* call returns the data the pair has after it (None while it has none); a
\* call without a factory changes nothing; and no call changes the data of
\* another name or of a pair that already has data.
C23_CreatedOnce ==
    /\ [](\A e \in Extendables, name \in ExtensionNames :
              /\ factory_calls[e][name] <= 1
              /\ factory_calls[e][name] = 1
                     <=> DataOf(extension_data, e, name) # None)
    /\ [](call.nr > 0 =>
              call.returned = DataOf(extension_data, call.extendable,
                                     call.name))
    /\ [][/\ ~call'.factory => extension_data' = extension_data
          /\ \A e \in Extendables, name \in ExtensionNames :
                \/ DataOf(extension_data', e, name)
                       = DataOf(extension_data, e, name)
                \/ /\ DataOf(extension_data, e, name) = None
                   /\ call'.factory
                   /\ call'.extendable = e /\ call'.name = name]_vars

C23_Witness ==
    /\ call.factory /\ call.returned = Some(1)
    /\ factory_calls[call.extendable][call.name] = 1
    /\ NrMade = 2
    /\ \E name \in ExtensionNames :
          /\ name # call.name
          /\ DataOf(extension_data, call.extendable, name) = Some(2)

\* The number of the line of the file that piece i is on.
LineOf(i) == 1 + count(SubSeq(sf.f, 1, i - 1))

\* The directives that write_code() wrote after the handwritten code.
OwnLines == {i \in 1..Len(sf.f) : sf.f[i].own}

\* C24: the line counter of an open file is the number of the line that is
\* being written, one plus the number of newlines written since the file
\* was opened, and the directive written after handwritten code names the
\* number of the line that follows the directive.
C24_LineCounter ==
    pc = "open" =>
        /\ sf._line_nr = LineOf(Len(sf.f) + 1)
        /\ \A i \in OwnLines :
               /\ i < Len(sf.f) /\ sf.f[i + 1] = NL
               /\ sf.f[i].line = LineOf(i + 2)

C24_Witness ==
    /\ pc = "open" /\ sf.nr_writes = 2
    /\ Cardinality(OwnLines) = 2
    /\ \E i \in OwnLines : i > 1 /\ sf.f[i - 1] = Text("x")
    /\ \E i \in 1..Len(sf.f) : sf.f[i] = Text("_cast< ::")

\* The part files among the source files that were created.
Parts == {i \in 1..Len(sources) : sources[i].name = "part"}

\* C25: when concatenation into N parts is asked for, the code of the
\* module is written to exactly N part files, however many interface files
\* the module has.
C25_ExactlyNParts ==
    pc = "done" /\ build.concatenate > 0 =>
        Cardinality(Parts) = build.concatenate

\* Two overloads have the same C++ name and the same C++ signature.
SameVirtual(o, p) ==
    o.cpp_name = p.cpp_name /\ o.cpp_signature = p.cpp_signature

\* The overload a catcher is written for.
Caught(c) == shadow_klass.virtual_overloads[shadow.catchers[c].virtual_overload]

\* C26: the catchers of a class are for non-private virtual overloads, no
\* two of them have the same C++ name and signature, they are in the order
\* of declaration, and every non-private virtual overload has a catcher of
\* its name and signature; the constructors of the shadow class are the
\* non-private constructors, one for each signature, likewise.
C26_CatchersCoverOnce ==
    shadow.defined =>
        /\ \A c, d \in 1..Len(shadow.catchers) :
               /\ Caught(c).access_specifier # "PRIVATE"
               /\ c # d => ~SameVirtual(Caught(c), Caught(d))
               /\ c < d => shadow.catchers[c].virtual_overload
                               < shadow.catchers[d].virtual_overload
        /\ \A i \in 1..Len(shadow_klass.virtual_overloads) :
               shadow_klass.virtual_overloads[i].access_specifier # "PRIVATE"
                   => \E c \in 1..Len(shadow.catchers) :
                          SameVirtual(Caught(c),
                                      shadow_klass.virtual_overloads[i])
        /\ \A i \in 1..Len(shadow_klass.ctors) :
               /\ shadow_klass.ctors[i].access_specifier # "PRIVATE"
               /\ shadow_klass.ctors[i].cpp_signature # None
               => \E c \in 1..Len(shadow.ctors) :
                      shadow_klass.ctors[shadow.ctors[c].ctor].cpp_signature
                          = shadow_klass.ctors[i].cpp_signature

\* C27: the indices that the catchers of a shadow class use into
\* sipPyMethods are pairwise distinct and lie between 0 and the declared
\* length less one, and when there is a catcher the array is declared and
\* every constructor of the shadow class zeroes it.
C27_IndicesInArray ==
    shadow.declared /\ shadow.defined =>
        /\ \A c, d \in 1..Len(shadow.catchers) :
               /\ c # d => shadow.catchers[c].virt_nr
                               # shadow.catchers[d].virt_nr
               /\ shadow.catchers[c].virt_nr \in 0..(shadow.sipPyMethods - 1)
        /\ shadow.catchers # <<>> =>
               /\ shadow.sipPyMethods > 0
               /\ \A c \in 1..Len(shadow.ctors) : shadow.ctors[c].memset

C27_Witness ==
    /\ shadow.declared /\ shadow.defined
    /\ Len(shadow_klass.virtual_overloads) = 3
    /\ Len(shadow.catchers) = 2 /\ shadow.sipPyMethods = 2
    /\ shadow.catchers[2].virt_nr = 1
    /\ Len(shadow.ctors) = 2

\* The statements of a body that run when the native call completes: the
\* catch clause is passed over.
NormalPath(stmts) ==
    SelectSeq(stmts, LAMBDA st : ~st.in_catch /\ st.s # "catch (...) {")

\* The statements that run when the native call throws: those up to the
\* call and then the catch clause.
ThrowingPath(stmts) ==
    LET at == CHOOSE i \in 1..Len(stmts) : stmts[i].s = "catch (...) {"
    IN  SelectSeq(SubSeq(stmts, 1, at - 1),
                  LAMBDA st : st.s \notin {"}", "call", "sipCpp = new"})
        \o SelectSeq(stmts, LAMBDA st : st.in_catch)

\* The statements that run without the GIL.
Native == {"{", "}", "try {", "call", "sipCpp = new", "method_code"}

IsReturn(st) ==
    st.action = "return"
        \/ st.s \in {"return SIP_NULLPTR", "return sipCpp", "return sipResObj"}

\* The state of the GIL after the statements of a path from place i on have
\* run, starting with gil: "held", "released", or "wrong" once it was
\* acquired while held, released while released, a statement that needs it
\* ran without it, or the function returned without it.
RECURSIVE GilAfter(_, _, _)
GilAfter(path, i, gil) ==
    IF i > Len(path) \/ gil = "wrong" THEN gil
    ELSE LET st == path[i]
         IN  IF st.s = "Py_BEGIN_ALLOW_THREADS"
             THEN GilAfter(path, i + 1,
                           IF gil = "held" THEN "released" ELSE "wrong")
             ELSE IF st.s \in {"Py_BLOCK_THREADS", "Py_END_ALLOW_THREADS"}
             THEN GilAfter(path, i + 1,
                           IF gil = "released" THEN "held" ELSE "wrong")
             ELSE IF IsReturn(st)
             THEN (IF gil = "held" THEN "held" ELSE "wrong")
             ELSE IF st.s \in Native THEN GilAfter(path, i + 1, gil)
             ELSE GilAfter(path, i + 1,
                           IF gil = "held" THEN "held" ELSE "wrong")

HasCatch(stmts) == \E i \in 1..Len(stmts) : stmts[i].s = "catch (...) {"

\* C28: on the path on which the native call completes and on the path
\* through the catch clause, the GIL that was released is acquired again
\* exactly once, before any statement that needs it and before the
\* function returns.
C28_GilReacquiredOnce ==
    pc = "done" /\ body # <<>> =>
        /\ GilAfter(NormalPath(body), 1, "held") = "held"
        /\ HasCatch(body) => GilAfter(ThrowingPath(body), 1, "held") = "held"

C28_Witness ==
    /\ pc = "done" /\ HasCatch(body)
    /\ \E i \in 1..Len(body) : body[i].s = "Py_BLOCK_THREADS"
    /\ \E i \in 1..Len(body) : body[i].s = "Py_END_ALLOW_THREADS"
    /\ \E i \in 1..Len(body) : body[i].in_catch /\ body[i].nr >= 0

\* The characters of the pool from an offset on, as many as the name has,
\* and the one after them.
PoolAt(offset, len) ==
    IF offset + len + 1 > Len(names.sipStrings) THEN <<>>
    ELSE SubSeq(names.sipStrings, offset + 1, offset + len + 1)

UsedNames == {i \in 1..Len(names.name_cache_list) : names.name_cache_list[i].used}

\* C29: once the name cache is laid out and the pool is written, the
\* offset of every used name is the place in the pool of the characters
\* of the name followed by a terminator, whether the name is stored in
\* full or as the tail of a longer name, and the names stored in full do
\* not overlap.
C29_OffsetsAddressNames ==
    names.written =>
        /\ \A i \in UsedNames :
               LET n == names.name_cache_list[i]
               IN  PoolAt(n.offset, Len(n.name)) = n.name \o <<NUL>>
        /\ \A i, j \in UsedNames :
               LET n == names.name_cache_list[i]
                   m == names.name_cache_list[j]
               IN  i # j /\ ~n.is_substring /\ ~m.is_substring =>
                       \/ n.offset + Len(n.name) < m.offset
                       \/ m.offset + Len(m.name) < n.offset

C29_Witness ==
    /\ names.written
    /\ Cardinality(UsedNames) = 3
    /\ \E i, j \in UsedNames :
           /\ names.name_cache_list[i].is_substring
           /\ names.name_cache_list[i].offset > 1
           /\ ~names.name_cache_list[j].is_substring
           /\ names.name_cache_list[j].offset > 0

\* C30: no field of the wrapped module's definition is initialised twice.
C30_FieldsOnce ==
    \A i, j \in 1..Len(sipWrappedModule) :
        i # j => sipWrappedModule[i] # sipWrappedModule[j]
====
